---- MODULE Spec2Model ----
(***************************************************************************)
(* nox-poetry: the lock-file aware install wrapper of a Nox session.       *)
(*                                                                         *)
(* Python strings are sequences of atoms.  An atom is a TLA+ string: one   *)
(* character where the code inspects characters (install arguments, white  *)
(* space, line ends), or an indivisible chunk where it does not (a package *)
(* name, a directory).  None/absent is the empty sequence and Some(v) is   *)
(* the one-element sequence <<v>>.                                         *)
(***************************************************************************)
EXTENDS Integers, Sequences, FiniteSets, TLC

-----------------------------------------------------------------------------
(* Bounds *)

\* number of distinct contents poetry.lock takes
MaxLock == 2
\* longest positional argument list given to install
MaxArgs == 2
\* longest extras list given to installroot
MaxExtras == 2

-----------------------------------------------------------------------------
(* Option values and strings *)

None == <<>>
Some(v) == <<v>>
IsNone(o) == o = <<>>
Value(o) == o[1]

NL == "\n"
CR == "\r"
Whitespace == {" ", NL, "\t"}

Last(s) == s[Len(s)]

RECURSIVE Concat(_)
\* "".join(parts)
Concat(parts) ==
    IF parts = <<>> THEN <<>> ELSE Head(parts) \o Concat(Tail(parts))

RECURSIVE Join(_, _)
\* sep.join(parts)
Join(sep, parts) ==
    IF parts = <<>> THEN <<>>
    ELSE IF Len(parts) = 1 THEN Head(parts)
    ELSE Head(parts) \o sep \o Join(sep, Tail(parts))

RECURSIVE LStrip(_)
LStrip(s) ==
    IF s # <<>> /\ Head(s) \in Whitespace THEN LStrip(Tail(s)) ELSE s

RECURSIVE RStrip(_)
RStrip(s) ==
    IF s # <<>> /\ Last(s) \in Whitespace
    THEN RStrip(SubSeq(s, 1, Len(s) - 1)) ELSE s

\* str.strip()
Strip(s) == RStrip(LStrip(s))

\* str.startswith(prefix)
StartsWith(s, prefix) ==
    Len(s) >= Len(prefix) /\ SubSeq(s, 1, Len(prefix)) = prefix

RECURSIVE Split(_)
\* str.split(): the maximal runs of non-whitespace atoms, each run a string
Split(s) ==
    IF s = <<>> THEN <<>>
    ELSE IF Head(s) \in Whitespace THEN Split(Tail(s))
    ELSE LET n == CHOOSE k \in 1..Len(s) :
                    /\ \A i \in 1..k : s[i] \notin Whitespace
                    /\ (k = Len(s) \/ s[k + 1] \in Whitespace)
         IN <<SubSeq(s, 1, n)>> \o Split(SubSeq(s, n + 1, Len(s)))

\* the sequences over S of length 0..n
SeqsUpTo(S, n) == UNION {[1..k -> S] : k \in 0..n}

-----------------------------------------------------------------------------
(* Outcomes of calls: a returned value or a raised exception *)

Return(v) == [kind |-> "return", val |-> v, exc |-> ""]
Raise(e) == [kind |-> "raise", val |-> <<>>, exc |-> e]
Returned(r) == r.kind = "return"
Raised(r, e) == r.kind = "raise" /\ r.exc = e

-----------------------------------------------------------------------------
(* poetry.py: distribution formats and the project configuration *)

\* A value given as distribution format: a member of the DistributionFormat
\* enum, or a plain str.
WHEEL == [enum |-> TRUE, value |-> "wheel"]
SDIST == [enum |-> TRUE, value |-> "sdist"]
Str(v) == [enum |-> FALSE, value |-> v]

\* DistributionFormat(format): the member with that value, or ValueError
\* a conversion that takes every string for a format
AnyFormat(format) == Return([enum |-> TRUE, value |-> format.value])

DistributionFormat(format) ==
    IF format.value \in {"wheel", "sdist"}
    THEN Return([enum |-> TRUE, value |-> format.value])
    ELSE Raise("ValueError")

\* pyproject.toml as Config reads it: the [tool.poetry] name, the names of
\* the extras, the names of the group tables, and whether a
\* [tool.poetry.dev-dependencies] table is there.
PyProject ==
    [name |-> <<"example">>, extras |-> << <<"pygments">> >>,
     group |-> <<>>, dev_dependencies |-> TRUE]

\* the same project with dependency groups in place of dev-dependencies
GroupsPyProject ==
    [name |-> <<"example">>, extras |-> <<>>,
     group |-> << <<"tests">>, <<"docs">> >>, dev_dependencies |-> FALSE]

\* a project with neither dependency groups nor dev-dependencies
PlainPyProject ==
    [name |-> <<"example">>, extras |-> <<>>,
     group |-> <<>>, dev_dependencies |-> FALSE]

\* a project with dependency groups and a dev-dependencies table
MixedPyProject ==
    [name |-> <<"example">>, extras |-> << <<"pygments">>, <<"docs">> >>,
     group |-> << <<"tests">>, <<"docs">> >>, dev_dependencies |-> TRUE]

PyProjects == {PyProject, GroupsPyProject, PlainPyProject, MixedPyProject}

\* Config.name
ConfigName(config) == config.name

\* Config.extras
ConfigExtras(config) == config.extras

\* the dependency groups with the dev-dependencies looked at first
DevGroupFirst(config) ==
    IF config.dev_dependencies THEN << <<"dev">> >> ELSE config.group

\* the group tables alone, without the dev-dependencies of older projects
GroupTables(config) == config.group

\* Config.dependency_groups
dependency_groups(config) ==
    IF config.group = <<>> /\ config.dev_dependencies
    THEN << <<"dev">> >>
    ELSE config.group

-----------------------------------------------------------------------------
(* sessions.py: the extras of an install argument *)

\* `$` of the pattern: the end of the string, or just before a newline that
\* ends the string
AtEnd(arg, j) ==
    \/ j = Len(arg)
    \/ j = Len(arg) - 1 /\ arg[Len(arg)] = NL

\* The lengths i of group 1 for which ^(.+)(\[[^\]]+\])$ matches arg:
\* arg[1..i] holds no newline, arg[i+1] is "[", then one or more atoms other
\* than "]", then "]" at the end.
ExtrasMatches(arg) ==
    { i \in 1..(Len(arg) - 3) :
        /\ \A k \in 1..i : arg[k] # NL
        /\ arg[i + 1] = "["
        /\ \E j \in (i + 3)..Len(arg) :
              /\ arg[j] = "]"
              /\ \A k \in (i + 2)..(j - 1) : arg[k] # "]"
              /\ AtEnd(arg, j) }

\* _split_extras(arg): <<arg without extras, extras or None>>; (.+) is
\* greedy, so group 1 is the longest that matches.
_split_extras(arg) ==
    IF ExtrasMatches(arg) = {} THEN <<arg, None>>
    ELSE LET i == CHOOSE m \in ExtrasMatches(arg) :
                      \A n \in ExtrasMatches(arg) : n <= m
             j == CHOOSE n \in (i + 3)..Len(arg) :
                      arg[n] = "]" /\ \A k \in (i + 2)..(n - 1) : arg[k] # "]"
         IN <<SubSeq(arg, 1, i), Some(SubSeq(arg, i + 1, j))>>

DOT == <<".">>

\* a rewrite that drops the extras of "."
RewriteWithoutExtras(arg, extras, package, name) ==
    IF arg # DOT
    THEN (IF IsNone(extras) THEN arg ELSE arg \o Value(extras))
    ELSE package

\* rewrite(arg, extras) inside install, with the built package and the
\* configured package name
rewrite(arg, extras, package, name) ==
    IF arg # DOT
    THEN (IF IsNone(extras) THEN arg ELSE arg \o Value(extras))
    ELSE IF IsNone(extras) THEN package
    ELSE name \o Value(extras) \o <<" @ ">> \o package

\* args = tuple(rewrite(arg, extras) for arg, extras in args_extras)
RewriteArgs(args, package, name) ==
    [i \in 1..Len(args) |->
        rewrite(_split_extras(args[i])[1], _split_extras(args[i])[2],
                package, name)]

\* "." in args: the arguments with extras are not looked into
HasBareDot(args) == \E i \in 1..Len(args) : args[i] = DOT

\* "." in [arg for arg, _ in args_extras]
HasDot(args) == \E i \in 1..Len(args) : _split_extras(args[i])[1] = DOT

-----------------------------------------------------------------------------
(* sessions.py: paths and the package URL.  A path is the string of it. *)

\* session._runner.envdir and Path.cwd()
envdir == <<"/proj/.nox/test">>
cwd == <<"/proj">>

\* parent / child
PathJoin(parent, child) == parent \o <<"/">> \o child

RECURSIVE PathName(_)
\* path.name: what follows the last "/"
PathName(path) ==
    IF \E i \in 1..Len(path) : path[i] = "/"
    THEN PathName(Tail(path))
    ELSE path

\* tmpdir = Path(envdir) / "tmp"
tmpdir == PathJoin(envdir, <<"tmp">>)
\* path = tmpdir / "requirements.txt"
RequirementsPath == PathJoin(tmpdir, <<"requirements.txt">>)
\* hashfile = tmpdir / f"{path.name}.hash"
HashPath == PathJoin(tmpdir, PathName(RequirementsPath) \o <<".hash">>)

\* the option that installs the file in place of constraining by it
RequirementOption(requirements) == <<"--requirement=">> \o requirements

\* f"--constraint={requirements}"
ConstraintOption(requirements) == <<"--constraint=">> \o requirements

\* the URL with the fragment when format itself is the member SDIST
PackageUrlOfMember(archive, format, name) ==
    IF format = SDIST
    THEN <<"file://">> \o PathJoin(cwd, PathJoin(<<"dist">>, archive)) \o <<"#egg=">> \o name
    ELSE <<"file://">> \o PathJoin(cwd, PathJoin(<<"dist">>, archive))

\* (Path("dist") / archive).resolve().as_uri(), with the "#egg=<name>"
\* fragment when DistributionFormat(format) is SDIST
PackageUrl(archive, format, name) ==
    LET wheel == PathJoin(cwd, PathJoin(<<"dist">>, archive))
        url == <<"file://">> \o wheel
    IN IF DistributionFormat(format).val = SDIST
       THEN url \o <<"#egg=">> \o name
       ELSE url

-----------------------------------------------------------------------------
(* poetry.py: the Poetry version *)

Digits == {"0", "1", "2", "3", "4", "5", "6", "7", "8", "9"}
Letters ==
    {"a", "b", "c", "d", "e", "f", "g", "h", "i", "j", "k", "l", "m",
     "n", "o", "p", "q", "r", "s", "t", "u", "v", "w", "x", "y", "z",
     "A", "B", "C", "D", "E", "F", "G", "H", "I", "J", "K", "L", "M",
     "N", "O", "P", "Q", "R", "S", "T", "U", "V", "W", "X", "Y", "Z"}

RECURSIVE Run(_, _, _)
\* how many atoms of s from position p on are in class C
Run(s, p, C) ==
    IF p <= Len(s) /\ s[p] \in C THEN 1 + Run(s, p + 1, C) ELSE 0

RECURSIVE PairsRun(_, _)
\* how many times (\.[0-9+]) matches in a row from position p on
PairsRun(s, p) ==
    IF p + 1 <= Len(s) /\ s[p] = "." /\ s[p + 1] \in (Digits \cup {"+"})
    THEN 1 + PairsRun(s, p + 2) ELSE 0

\* The matches of [0-9]+(\.[0-9+])+[-+.0-9a-zA-Z]+ that start at i, as
\* <<digits, pairs>>; the last part takes all it can.
VersionMatchesAt(s, i) ==
    { dk \in (1..Run(s, i, Digits)) \X (1..Len(s)) :
        /\ dk[2] <= PairsRun(s, i + dk[1])
        /\ Run(s, i + dk[1] + 2 * dk[2], Digits \cup Letters \cup {"-", "+", "."}) >= 1 }

\* VERSION_PATTERN.search(output): the match (Some) at the leftmost start,
\* each repetition greedy, or None
VERSION_PATTERN(output) ==
    LET starts == {i \in 1..Len(output) : VersionMatchesAt(output, i) # {}}
    IN IF starts = {} THEN None
       ELSE LET i == CHOOSE m \in starts : \A n \in starts : m <= n
                M == VersionMatchesAt(output, i)
                dk == CHOOSE x \in M : \A y \in M :
                          y[1] < x[1] \/ (y[1] = x[1] /\ y[2] <= x[2])
                p == i + dk[1] + 2 * dk[2]
                t == Run(output, p, Digits \cup Letters \cup {"-", "+", "."})
            IN Some(SubSeq(output, i, p + t - 1))

RECURSIVE SplitOn(_, _)
\* str.split(sep), sep one atom
SplitOn(s, sep) ==
    IF \A i \in 1..Len(s) : s[i] # sep THEN <<s>>
    ELSE LET n == CHOOSE k \in 1..Len(s) :
                    s[k] = sep /\ \A i \in 1..(k - 1) : s[i] # sep
         IN <<SubSeq(s, 1, n - 1)>> \o SplitOn(SubSeq(s, n + 1, Len(s)), sep)

DigitValue(c) == CHOOSE n \in 0..9 : ToString(n) = c

RECURSIVE DigitsValue(_)
DigitsValue(s) ==
    IF s = <<>> THEN 0
    ELSE 10 * DigitsValue(SubSeq(s, 1, Len(s) - 1)) + DigitValue(Last(s))

\* int(part): an optional sign and digits, or ValueError
ParseInt(part) ==
    LET body == IF part # <<>> /\ Head(part) \in {"+", "-"} THEN Tail(part) ELSE part
    IN IF body # <<>> /\ \A i \in 1..Len(body) : body[i] \in Digits
       THEN Return(IF Head(part) = "-" THEN 0 - DigitsValue(body) ELSE DigitsValue(body))
       ELSE Raise("ValueError")

\* a comparison of the components by their first digit, as strs compare
HasDependencyGroupsByString(version) ==
    LET parts == SplitOn(version, ".")
    IN Return(\/ DigitValue(parts[1][1]) > 1
              \/ DigitValue(parts[1][1]) = 1 /\ DigitValue(parts[2][1]) >= 2)

\* Poetry.has_dependency_groups for a parsed version:
\* tuple(int(part) for part in version.split(".")[:2]) >= (1, 2)
has_dependency_groups(version) ==
    LET parts == SplitOn(version, ".")
        major == ParseInt(parts[1])
        minor == IF Len(parts) >= 2 THEN ParseInt(parts[2]) ELSE Return(0)
    IN IF ~Returned(major) THEN major
       ELSE IF ~Returned(minor) THEN minor
       ELSE IF Len(parts) < 2 THEN Return(major.val >= 2)
       ELSE Return(major.val > 1 \/ (major.val = 1 /\ minor.val >= 2))

\* what `poetry --version --no-ansi` prints
VersionOutputs ==
    { <<"P", "o", "e", "t", "r", "y", " ", "v", "e", "r", "s", "i", "o", "n",
        " ", "1", ".", "1", ".", "1", "5", NL>>,
      <<"P", "o", "e", "t", "r", "y", " ", "(", "v", "e", "r", "s", "i", "o",
        "n", " ", "1", ".", "2", ".", "2", ")", NL>>,
      <<"b", "o", "g", "u", "s">> }

\* Versions of Poetry with their first two components, and what `poetry
\* --version` prints for each when the output is the version alone
TestedVersions ==
    { [output |-> <<"1", ".", "0", ".", "1", "0">>, major |-> 1, minor |-> 0],
      [output |-> <<"1", ".", "1", ".", "1", "5">>, major |-> 1, minor |-> 1],
      [output |-> <<"1", ".", "2", ".", "2">>, major |-> 1, minor |-> 2],
      [output |-> <<"1", ".", "6", ".", "0", ".", "d", "e", "v", "0">>,
       major |-> 1, minor |-> 6],
      [output |-> <<"1", ".", "1", "0", ".", "0">>, major |-> 1, minor |-> 10],
      [output |-> <<"2", ".", "0", ".", "0">>, major |-> 2, minor |-> 0],
      [output |-> <<"0", ".", "1", "2", ".", "1", "7">>, major |-> 0, minor |-> 12],
      [output |-> <<"1", "0", ".", "1", ".", "0">>, major |-> 10, minor |-> 1] }

-----------------------------------------------------------------------------
(* poetry.py: the commands *)

\* the command line of Poetry.version
VersionCommand == << <<"poetry">>, <<"--version">>, <<"--no-ansi">> >>

\* the command line of Poetry.build, format a DistributionFormat member
BuildCommand(format) ==
    << <<"poetry">>, <<"build">>, <<"--format=", format.value>>, <<"--no-ansi">> >>

\* the command line of Poetry.export
ExportCommand(config, with_groups) ==
    << <<"poetry">>, <<"export">>, <<"--format=requirements.txt">> >>
    \o (IF with_groups
        THEN [i \in 1..Len(dependency_groups(config)) |->
                 <<"--with=">> \o dependency_groups(config)[i]]
        ELSE << <<"--dev">> >>)
    \o [i \in 1..Len(ConfigExtras(config)) |->
           <<"--extras=">> \o ConfigExtras(config)[i]]
    \o << <<"--without-hashes">> >>

\* the last atom of the line boundary that starts at n: "\r\n" is one
\* boundary
BoundaryEnd(s, n) ==
    IF s[n] = CR /\ n < Len(s) /\ s[n + 1] = NL THEN n + 1 ELSE n

RECURSIVE SplitLines(_, _)
\* str.splitlines(keepends), the line boundaries being "\n", "\r\n", "\r"
SplitLines(s, keepends) ==
    IF s = <<>> THEN <<>>
    ELSE IF \A i \in 1..Len(s) : s[i] \notin {NL, CR} THEN <<s>>
    ELSE LET n == CHOOSE k \in 1..Len(s) :
                    s[k] \in {NL, CR} /\ \A i \in 1..(k - 1) : s[i] \notin {NL, CR}
         IN <<SubSeq(s, 1, IF keepends THEN BoundaryEnd(s, n) ELSE n - 1)>>
            \o SplitLines(SubSeq(s, BoundaryEnd(s, n) + 1, Len(s)), keepends)

\* the lines without the warning at their head, if there is one
_stripleadingwarning(lines) ==
    IF lines # <<>> /\ StartsWith(Head(lines), <<"Warning:">>) THEN Tail(lines)
    ELSE lines

RECURSIVE _stripwarnings(_)
\* the lines that do not start with "Warning:"
_stripwarnings(lines) ==
    IF lines = <<>> THEN <<>>
    ELSE IF StartsWith(Head(lines), <<"Warning:">>) THEN _stripwarnings(Tail(lines))
    ELSE <<Head(lines)>> \o _stripwarnings(Tail(lines))

RECURSIVE PrintedWarnings(_)
\* what _stripwarnings prints to sys.stderr: print(line) for each line that
\* starts with "Warning:", the line with its ending and the "\n" of print
PrintedWarnings(lines) ==
    IF lines = <<>> THEN <<>>
    ELSE IF StartsWith(Head(lines), <<"Warning:">>)
    THEN (Head(lines) \o <<NL>>) \o PrintedWarnings(Tail(lines))
    ELSE PrintedWarnings(Tail(lines))

\* the value Poetry.export returns for the output of the command
StripWarnings(output) == Concat(_stripwarnings(SplitLines(output, TRUE)))

\* the archive Poetry.build returns: output.split()[-1]
BuiltArchive(output) == Last(Split(output))

\* the archive `poetry build` writes for a format
ArchiveName(format) ==
    IF format.value = "sdist" THEN <<"example-0.1.0.tar.gz">>
    ELSE <<"example-0.1.0-py3-none-any.whl">>

\* what `poetry build --format=<format> --no-ansi` prints
BuildOutputs(format) ==
    { <<"Building", " ", "example", " ", "(0.1.0)", NL,
        " ", " ", "-", " ", "Building", " ", format.value, NL,
        " ", " ", "-", " ", "Built", " ">> \o ArchiveName(format) \o <<NL>> }

\* what `poetry export` prints for lock file contents l: the pinned
\* requirement, possibly after a warning, possibly followed by a path
\* dependency in a form that is no valid requirement
ExportOutputs(l) ==
    LET pin == <<"first", "==", ToString(l), NL>>
    IN { pin,
         <<"Warning:", " ", "The lock file is not up to date.", NL>> \o pin,
         pin \o <<"example", " ", "@", " ", "/tmp/example", NL>> }

\* longest output of `poetry export`, in lines, given to Poetry.export
\* called on its own
MaxOutputLines == 2

\* Lines of an output of `poetry export`, each with whether it starts with
\* "Warning:": requirements and warnings ending in "\n", "\r\n" or "\r", a
\* warning that is indented, a blank line, and a requirement and a warning
\* with no line ending
ExportLines ==
    { [text |-> <<"first", "==", "1", NL>>, warning |-> FALSE],
      [text |-> <<"first", "==", "1", CR, NL>>, warning |-> FALSE],
      [text |-> <<"Warning:", " ", "The lock file is not up to date.", NL>>,
       warning |-> TRUE],
      [text |-> <<"Warning:", " ", "x", CR>>, warning |-> TRUE],
      [text |-> <<" ", "Warning:", " ", "x", NL>>, warning |-> FALSE],
      [text |-> <<NL>>, warning |-> FALSE],
      [text |-> <<"first", "==", "1">>, warning |-> FALSE],
      [text |-> <<"Warning:", " ", "x">>, warning |-> TRUE] }

\* the outputs of `poetry export`: up to MaxOutputLines lines, every line
\* but the last with a line ending, and none beginning with the "\n" of a
\* "\r\n" (these would not be the lines of the output)
ExportLineLists ==
    { lines \in SeqsUpTo(ExportLines, MaxOutputLines) :
        \A i \in 1..(Len(lines) - 1) :
            /\ Last(lines[i].text) \in {NL, CR}
            /\ ~(Last(lines[i].text) = CR /\ Head(lines[i + 1].text) = NL) }

\* the output made of the lines
ExportText(lines) == Concat([i \in 1..Len(lines) |-> lines[i].text])

-----------------------------------------------------------------------------
(* sessions.py: requirements to constraints *)

\* Atoms of a requirement line.  A name, a version, an extra, a marker
\* variable are any other atom.
SpecifierOps == {"==", ">=", "<=", "<", ">", "~=", "!="}
UrlSchemes == {"file://", "git+https://", "http://", "https://"}
SpecialAtoms ==
    Whitespace \cup SpecifierOps \cup UrlSchemes \cup {"[", "]", "@", ";", ",", "-"}

SkipWs(t, p) == p + Run(t, p, Whitespace)

InvalidRequirement == [ok |-> FALSE, name |-> <<>>, specifier |-> <<>>, marker |-> <<>>]

\* Requirement(requirement_string) of the packaging library, for lines of
\* the form  name [extras] (op version | @ url)? (; marker)?  with white
\* space around the parts; a url needs a scheme; anything else is
\* InvalidRequirement.  The parser goes left to right, one part at a step.

\* the end of the line at p: nothing more, or ";" and a marker
RequirementMarker(t, p, name, specifier) ==
    IF p > Len(t)
    THEN [ok |-> TRUE, name |-> name, specifier |-> specifier, marker |-> <<>>]
    ELSE IF t[p] # ";" \/ \A i \in (p + 1)..Len(t) : t[i] \in Whitespace
    THEN InvalidRequirement
    ELSE [ok |-> TRUE, name |-> name, specifier |-> specifier,
          marker |-> Strip(SubSeq(t, p + 1, Len(t)))]

\* the url at u, after "@": a scheme and what follows up to white space
RequirementUrl(t, u, name) ==
    IF u > Len(t) \/ t[u] \notin UrlSchemes THEN InvalidRequirement
    ELSE RequirementMarker(
             t, SkipWs(t, u + Run(t, u, {t[i] : i \in 1..Len(t)} \ Whitespace)),
             name, <<>>)

\* the specifier or the url at p, after the name and the extras
RequirementSpecifier(t, p, name) ==
    IF p <= Len(t) /\ t[p] \in SpecifierOps
    THEN IF p + 1 > Len(t) \/ t[p + 1] \in SpecialAtoms THEN InvalidRequirement
         ELSE RequirementMarker(t, SkipWs(t, p + 2), name, <<t[p], t[p + 1]>>)
    ELSE IF p <= Len(t) /\ t[p] = "@"
    THEN RequirementUrl(t, SkipWs(t, p + 1), name)
    ELSE RequirementMarker(t, p, name, <<>>)

\* the extras at p, just after the name: "[" up to the first "]"
RequirementExtras(t, p, name) ==
    IF p <= Len(t) /\ t[p] = "["
    THEN IF \A j \in (p + 1)..Len(t) : t[j] # "]" THEN InvalidRequirement
         ELSE RequirementSpecifier(
                  t,
                  SkipWs(t, 1 + CHOOSE j \in (p + 1)..Len(t) :
                                    t[j] = "]" /\ \A k \in (p + 1)..(j - 1) : t[k] # "]"),
                  name)
    ELSE RequirementSpecifier(t, SkipWs(t, p), name)

\* the name at p
RequirementName(t, p) ==
    IF p > Len(t) \/ t[p] \in SpecialAtoms THEN InvalidRequirement
    ELSE RequirementExtras(t, p + 1, <<t[p]>>)

Requirement(t) == RequirementName(t, SkipWs(t, 1))

\* str(requirement.marker): string literals in double quotes
MarkerStr(marker) ==
    [i \in 1..Len(marker) |-> IF marker[i] = "'" THEN "\"" ELSE marker[i]]

\* a constraint that leaves the marker out
ConstraintWithoutMarker(requirement, line) ==
    IF ~requirement.ok
    THEN [kind |-> "raise", val |-> <<line>>, exc |-> "RuntimeError"]
    ELSE IF requirement.specifier = <<>> THEN Return(None)
    ELSE Return(Some(requirement.name \o requirement.specifier))

\* a constraint whose error counts the lines from 0
ConstraintLineFromZero(requirement, line) ==
    IF ~requirement.ok
    THEN [kind |-> "raise", val |-> <<line - 1>>, exc |-> "RuntimeError"]
    ELSE IF requirement.specifier = <<>> THEN Return(None)
    ELSE IF requirement.marker # <<>>
    THEN Return(Some(requirement.name \o requirement.specifier
                     \o <<";", " ">> \o MarkerStr(requirement.marker)))
    ELSE Return(Some(requirement.name \o requirement.specifier))

\* to_constraint, once the requirement is parsed
Constraint(requirement, line) ==
    IF ~requirement.ok
    THEN [kind |-> "raise", val |-> <<line>>, exc |-> "RuntimeError"]
    ELSE IF requirement.specifier = <<>> THEN Return(None)
    ELSE IF requirement.marker # <<>>
    THEN Return(Some(requirement.name \o requirement.specifier
                     \o <<";", " ">> \o MarkerStr(requirement.marker)))
    ELSE Return(Some(requirement.name \o requirement.specifier))

\* to_constraint(requirement_string, line): Return(Some(constraint)),
\* Return(None), or RuntimeError carrying the line number
to_constraint(requirement_string, line) ==
    IF \E prefix \in {"-"} \cup UrlSchemes : StartsWith(requirement_string, <<prefix>>)
    THEN Return(None)
    ELSE Constraint(Requirement(requirement_string), line)

\* the constraint of a line before the constraints of the lines after it:
\* the first error, or the constraints that are not None, in order
Yield(constraint, rest) ==
    IF ~Returned(constraint) THEN constraint
    ELSE IF ~Returned(rest) THEN rest
    ELSE Return(constraint.val \o rest.val)

RECURSIVE _to_constraints(_, _)
\* the generator of to_constraints over lines[line..]
_to_constraints(lines, line) ==
    IF line > Len(lines) THEN Return(<<>>)
    ELSE IF \A i \in 1..Len(lines[line]) : lines[line][i] \in Whitespace
    THEN _to_constraints(lines, line + 1)
    ELSE Yield(to_constraint(lines[line], line), _to_constraints(lines, line + 1))

\* "\n".join of what the generator yields
JoinConstraints(r) == IF Returned(r) THEN Return(Join(<<NL>>, r.val)) ELSE r

\* to_constraints(requirements)
to_constraints(requirements) ==
    JoinConstraints(_to_constraints(SplitLines(requirements, FALSE), 1))

-----------------------------------------------------------------------------
(* Inputs *)

\* the contents poetry.lock takes
LockContents == 1..MaxLock

\* hashlib.blake2b(lockdata).hexdigest(): one digest per contents
blake2b(lockdata) == <<"blake2b:", ToString(lockdata)>>

\* positional arguments given to install
ArgStrings ==
    { DOT,
      <<"pyflakes">>,
      <<".", "[", "noodles", "]">>,
      <<"pyflakes", "[", "honey", "]">>,
      <<"pyflakes", "[", "honey", "]", NL>> }

\* the argument lists given to install: up to MaxArgs arguments, none of
\* them twice
ArgLists ==
    { args \in SeqsUpTo(ArgStrings, MaxArgs) :
        \A i, j \in 1..Len(args) : args[i] = args[j] => i = j }

\* keyword arguments given to install, as <<key, value>> pairs
KwargsSet == { <<>>, << <<"silent", "False">> >> }

\* distribution formats given to installroot and build_package
FormatArgs == {WHEEL, SDIST, Str("wheel"), Str("sdist"), Str("egg")}

\* extras given to installroot
ExtraStrings == { <<"noodles">>, <<" ">> }

\* the Nox sessions: one that skips commands (--no-install on a reused
\* environment), where run_always returns None and prints nothing, and
\* those that run them, with what `poetry --version` prints
Sessions ==
    {[no_install |-> TRUE, version_output |-> None]}
    \cup {[no_install |-> FALSE, version_output |-> v] : v \in VersionOutputs}

\* exit codes of a command that is run: success, and two failures that
\* `pip cache remove` tells apart
ExitCodes == {0, 1, 2}

\* exit codes of a command whose failures are all alike
CommandCodes == {0, 1}

-----------------------------------------------------------------------------
(* State *)

VARIABLES
    lock,        \* poetry.lock: Some(contents) or None when there is no file
    reqfile,     \* <envdir>/tmp/requirements.txt: Some(text) or None
    hashfile,    \* <envdir>/tmp/requirements.txt.hash: Some(text) or None
    pyproject,   \* pyproject.toml as Config reads it
    session,     \* the Nox session: whether it skips commands (--no-install
                 \* on a reused environment), and what poetry --version prints
    _version,    \* Poetry._version of the session's Poetry object
    pc,          \* where the session function is
    frame,       \* the operation under way and the arguments it was given
    locals,      \* local variables of the operation under way
    log,         \* the calls the operation made on the Nox session, in order
    result       \* the outcome of the operation, once it is done

vars == <<lock, reqfile, hashfile, pyproject, session, _version, pc, frame,
          locals, log, result>>

NoFrame == [op |-> "none", args |-> <<>>, kwargs |-> <<>>, format |-> WHEEL,
            extras |-> <<>>]
NoLocals == [args |-> <<>>, output |-> <<>>, package |-> <<>>,
             requirements |-> <<>>, digest |-> <<>>, hash |-> <<>>,
             exported |-> <<>>, stderr |-> <<>>]
NoResult == [kind |-> "none", val |-> <<>>, exc |-> ""]

Init ==
    /\ lock \in {Some(l) : l \in LockContents}
    /\ reqfile = None
    /\ hashfile = None
    /\ pyproject = PyProject
    /\ session \in Sessions
    /\ _version = None
    /\ pc = "idle"
    /\ frame = NoFrame
    /\ locals = NoLocals
    /\ log = <<>>
    /\ result = NoResult

-----------------------------------------------------------------------------
(* The Nox session *)

\* session.run_always(*cmd, **kwargs) as the log keeps it: not run when the
\* session skips commands, else run with an exit code
RunAlways(cmd, kwargs, code) ==
    [fn |-> "run_always", args |-> cmd, kwargs |-> kwargs,
     ran |-> ~session.no_install,
     code |-> IF session.no_install THEN 0 ELSE code]

\* session.install(*args, **kwargs) as the log keeps it
SessionInstall(args, kwargs, code) ==
    [fn |-> "install", args |-> args, kwargs |-> kwargs,
     ran |-> ~session.no_install,
     code |-> IF session.no_install THEN 0 ELSE code]

Silent == << <<"silent", "True">> >>
PoetryKwargs == << <<"external", "True">>, <<"silent", "True">>, <<"stderr", "None">> >>

\* an exception that nothing catches
ThrowUncaught(exc) ==
    /\ pc' = "done"
    /\ result' = Raise(exc)

\* An exception leaves the operation: install and installroot catch
\* CommandSkippedError around build_package and export_requirements and
\* return None; every other exception reaches the caller.
Throw(exc) ==
    /\ pc' = "done"
    /\ result' = IF exc = "CommandSkippedError" /\ frame.op \in {"install", "installroot"}
                 THEN Return(None)
                 ELSE Raise(exc)

-----------------------------------------------------------------------------
(* The environment *)

\* A new run of Nox on the same environment directory: a new Session proxy
\* with a new Poetry object.
NewSession ==
    /\ pc = "idle"
    /\ \E s \in Sessions :
          /\ s # session
          /\ session' = s
    /\ _version' = None
    /\ UNCHANGED <<lock, reqfile, hashfile, pyproject, pc, frame, locals, log, result>>

\* poetry.lock is rewritten by another process: between operations, or
\* between the read of export_requirements and the run of `poetry export`
\* (a write at another step is seen by the operation as one of these two)
WriteLock ==
    /\ pc \in {"idle", "poetry_export"}
    /\ \E l \in LockContents : lock # Some(l) /\ lock' = Some(l)
    /\ UNCHANGED <<reqfile, hashfile, pyproject, session, _version, pc, frame,
                   locals, log, result>>

\* poetry.lock is removed, between operations
RemoveLock ==
    /\ pc = "idle"
    /\ lock # None
    /\ lock' = None
    /\ UNCHANGED <<reqfile, hashfile, pyproject, session, _version, pc, frame,
                   locals, log, result>>

-----------------------------------------------------------------------------
(* The operations of a session function *)

\* session.install(*args, **kwargs), up to its first call: args_extras and
\* the test for "."
install(args, kwargs) ==
    /\ pc = "idle"
    /\ frame' = [op |-> "install", args |-> args, kwargs |-> kwargs,
                 format |-> WHEEL, extras |-> <<>>]
    /\ locals' = [NoLocals EXCEPT !.args = args]
    /\ pc' = IF HasDot(args) THEN "build_package" ELSE "export_requirements"
    /\ UNCHANGED <<lock, reqfile, hashfile, pyproject, session, _version, log, result>>

\* session.poetry.installroot(distribution_format=..., extras=...)
installroot(distribution_format, extras) ==
    /\ pc = "idle"
    /\ frame' = [op |-> "installroot", args |-> <<>>, kwargs |-> <<>>,
                 format |-> distribution_format, extras |-> extras]
    /\ locals' = NoLocals
    /\ pc' = "build_package"
    /\ UNCHANGED <<lock, reqfile, hashfile, pyproject, session, _version, log, result>>

\* session.poetry.export_requirements() called by the session function
CallExportRequirements ==
    /\ pc = "idle"
    /\ frame' = [NoFrame EXCEPT !.op = "export_requirements"]
    /\ locals' = NoLocals
    /\ pc' = "export_requirements"
    /\ UNCHANGED <<lock, reqfile, hashfile, pyproject, session, _version, log, result>>

\* session.poetry.build_package(distribution_format=...) called by the
\* session function
CallBuildPackage(distribution_format) ==
    /\ pc = "idle"
    /\ frame' = [NoFrame EXCEPT !.op = "build_package", !.format = distribution_format]
    /\ locals' = NoLocals
    /\ pc' = "build_package"
    /\ UNCHANGED <<lock, reqfile, hashfile, pyproject, session, _version, log, result>>

\* _PoetrySession.build_package with Poetry.build: the format is converted,
\* `poetry build` is run, the archive is the last word of its output, and
\* the URL of the archive is returned to the operation.
build_package ==
    /\ pc = "build_package"
    /\ UNCHANGED <<lock, reqfile, hashfile, pyproject, session, _version, frame>>
    /\ IF ~Returned(DistributionFormat(frame.format))
       THEN Throw("ValueError") /\ UNCHANGED <<locals, log>>
       ELSE \E code \in CommandCodes :
            \E output \in BuildOutputs(DistributionFormat(frame.format).val) :
               LET call == RunAlways(BuildCommand(DistributionFormat(frame.format).val),
                                     PoetryKwargs, code)
                   url == PackageUrl(BuiltArchive(output), frame.format,
                                     ConfigName(pyproject))
               IN /\ log' = Append(log, call)
                  /\ IF ~call.ran
                     THEN Throw("CommandSkippedError") /\ UNCHANGED locals
                     ELSE IF call.code # 0
                     THEN Throw("CommandFailed") /\ UNCHANGED locals
                     ELSE /\ locals' = [locals EXCEPT !.output = output,
                                                         !.package = url]
                          /\ IF frame.op = "build_package"
                             THEN pc' = "done" /\ result' = Return(url)
                             ELSE /\ pc' = IF frame.op = "install"
                                           THEN "install_uninstall"
                                           ELSE "export_requirements"
                                  /\ UNCHANGED result

\* install, after build_package: the arguments are rewritten and the
\* package is uninstalled
install_uninstall ==
    /\ pc = "install_uninstall"
    /\ UNCHANGED <<lock, reqfile, hashfile, pyproject, session, _version, frame>>
    /\ \E code \in CommandCodes :
          LET call == RunAlways(<< <<"pip">>, <<"uninstall">>, <<"--yes">>,
                                   locals.package >>, Silent, code)
          IN /\ log' = Append(log, call)
             /\ locals' = [locals EXCEPT
                   !.args = RewriteArgs(frame.args, locals.package, ConfigName(pyproject))]
             /\ IF call.ran /\ call.code # 0
                THEN Throw("CommandFailed")
                ELSE pc' = "export_requirements" /\ UNCHANGED result

\* export_requirements returns path to the operation that called it
ReturnPath(path) ==
    IF frame.op = "export_requirements"
    THEN pc' = "done" /\ result' = Return(path)
    ELSE /\ pc' = IF frame.op = "install" THEN "session_install"
                  ELSE "installroot_uninstall"
         /\ UNCHANGED result

\* the path returned is `requirements` in install and installroot
Requirements(path) == IF frame.op = "export_requirements" THEN <<>> ELSE path

\* a test that looks only for the hash file, never into it
HashFileMissing(hash, digest) == IsNone(hash)

\* a test that is always true: no cache
AlwaysExport(hash, digest) == TRUE

\* the test of export_requirements: no hash file, or another digest in it
NeedsExport(hash, digest) == IsNone(hash) \/ Value(hash) # digest

\* _PoetrySession.export_requirements, up to the test of the hash file:
\* poetry.lock is read and hashed, and the hash file is read if it is there
export_requirements ==
    /\ pc = "export_requirements"
    /\ UNCHANGED <<lock, reqfile, hashfile, pyproject, session, _version, frame, log>>
    /\ IF IsNone(lock)
       THEN Throw("FileNotFoundError") /\ UNCHANGED locals
       ELSE IF NeedsExport(hashfile, blake2b(Value(lock)))
       THEN /\ pc' = "poetry_export"
            /\ locals' = [locals EXCEPT !.digest = blake2b(Value(lock)),
                                        !.hash = hashfile]
            /\ UNCHANGED result
       ELSE /\ ReturnPath(RequirementsPath)
            /\ locals' = [locals EXCEPT !.digest = blake2b(Value(lock)),
                                        !.hash = hashfile,
                                        !.requirements = Requirements(RequirementsPath)]

\* a version that keeps the output it could not parse
PoetryVersionKeepsOutput(code) ==
    LET call == RunAlways(VersionCommand, PoetryKwargs, code)
        match == VERSION_PATTERN(session.version_output)
    IN IF ~IsNone(_version)
       THEN [out |-> Return(Value(_version)), calls |-> <<>>, cache |-> _version]
       ELSE IF ~call.ran
       THEN [out |-> Raise("CommandSkippedError"), calls |-> <<call>>, cache |-> None]
       ELSE IF call.code # 0
       THEN [out |-> Raise("CommandFailed"), calls |-> <<call>>, cache |-> None]
       ELSE IF IsNone(match)
       THEN [out |-> Raise("RuntimeError"), calls |-> <<call>>,
             cache |-> Some(session.version_output)]
       ELSE [out |-> Return(Value(match)), calls |-> <<call>>, cache |-> match]

\* a version that is asked of Poetry at every access, with no cache
PoetryVersionUncached(code) ==
    LET call == RunAlways(VersionCommand, PoetryKwargs, code)
        match == VERSION_PATTERN(session.version_output)
    IN IF ~call.ran
       THEN [out |-> Raise("CommandSkippedError"), calls |-> <<call>>, cache |-> None]
       ELSE IF call.code # 0
       THEN [out |-> Raise("CommandFailed"), calls |-> <<call>>, cache |-> None]
       ELSE IF IsNone(match)
       THEN [out |-> Raise("RuntimeError"), calls |-> <<call>>, cache |-> None]
       ELSE [out |-> Return(Value(match)), calls |-> <<call>>, cache |-> match]

\* a version that takes a command that was not run for one whose output
\* cannot be parsed
PoetryVersionUnparsed(code) ==
    LET call == RunAlways(VersionCommand, PoetryKwargs, code)
        match == VERSION_PATTERN(session.version_output)
    IN IF ~IsNone(_version)
       THEN [out |-> Return(Value(_version)), calls |-> <<>>, cache |-> _version]
       ELSE IF call.ran /\ call.code # 0
       THEN [out |-> Raise("CommandFailed"), calls |-> <<call>>, cache |-> None]
       ELSE IF ~call.ran \/ IsNone(match)
       THEN [out |-> Raise("RuntimeError"), calls |-> <<call>>, cache |-> None]
       ELSE [out |-> Return(Value(match)), calls |-> <<call>>, cache |-> match]

\* Poetry.version: the cached version, or `poetry --version` run and parsed.
\* The outcome, with the call made (if any) and the cache afterwards.
PoetryVersion(code) ==
    LET call == RunAlways(VersionCommand, PoetryKwargs, code)
        match == VERSION_PATTERN(session.version_output)
    IN IF ~IsNone(_version)
       THEN [out |-> Return(Value(_version)), calls |-> <<>>, cache |-> _version]
       ELSE IF ~call.ran
       THEN [out |-> Raise("CommandSkippedError"), calls |-> <<call>>, cache |-> None]
       ELSE IF call.code # 0
       THEN [out |-> Raise("CommandFailed"), calls |-> <<call>>, cache |-> None]
       ELSE IF IsNone(match)
       THEN [out |-> Raise("RuntimeError"), calls |-> <<call>>, cache |-> None]
       ELSE [out |-> Return(Value(match)), calls |-> <<call>>, cache |-> match]

\* Poetry.export after Poetry.version: the version decides the group
\* options, `poetry export` is run on the lock file as it is now, and the
\* warnings are stripped
PoetryExport(version, groups) ==
    /\ _version' = version.cache
    /\ IF ~Returned(version.out)
       THEN /\ log' = log \o version.calls
            /\ Throw(version.out.exc)
            /\ UNCHANGED locals
       ELSE IF ~Returned(groups)
       THEN /\ log' = log \o version.calls
            /\ Throw(groups.exc)
            /\ UNCHANGED locals
       ELSE \E code \in CommandCodes :
            \E output \in IF IsNone(lock) THEN {<<>>}
                          ELSE IF frame.op = "export" THEN {ExportText(frame.args)}
                          ELSE ExportOutputs(Value(lock)) :
               LET call == RunAlways(ExportCommand(pyproject, groups.val),
                                     PoetryKwargs, code)
               IN /\ log' = (log \o version.calls) \o <<call>>
                  /\ IF ~call.ran
                     THEN Throw("CommandSkippedError") /\ UNCHANGED locals
                     ELSE IF call.code # 0 \/ IsNone(lock)
                     THEN Throw("CommandFailed") /\ UNCHANGED locals
                     ELSE /\ locals' = [locals EXCEPT !.exported = StripWarnings(output)]
                          /\ pc' = "write_requirements"
                          /\ UNCHANGED result

\* Poetry.export, from the call of Poetry.version on
poetry_export ==
    /\ pc = "poetry_export"
    /\ UNCHANGED <<lock, reqfile, hashfile, pyproject, session, frame>>
    /\ \E vcode \in CommandCodes :
          PoetryExport(PoetryVersion(vcode),
                       has_dependency_groups(PoetryVersion(vcode).out.val))

\* a write of the constraints that leaves the file as it was
WriteTextSkipped(constraints) ==
    IF Returned(constraints)
    THEN /\ pc' = "write_hash"
         /\ UNCHANGED <<reqfile, result>>
    ELSE /\ Throw(constraints.exc)
         /\ UNCHANGED reqfile

\* a write that empties the file before to_constraints is found to have
\* raised
WriteTextTruncating(constraints) ==
    IF Returned(constraints)
    THEN /\ reqfile' = Some(constraints.val)
         /\ pc' = "write_hash"
         /\ UNCHANGED result
    ELSE /\ Throw(constraints.exc)
         /\ reqfile' = Some(<<>>)

\* path.write_text(constraints), unless to_constraints raised
WriteText(constraints) ==
    IF Returned(constraints)
    THEN /\ reqfile' = Some(constraints.val)
         /\ pc' = "write_hash"
         /\ UNCHANGED result
    ELSE /\ Throw(constraints.exc)
         /\ UNCHANGED reqfile

\* constraints = to_constraints(...); path.write_text(constraints)
write_requirements ==
    /\ pc = "write_requirements"
    /\ UNCHANGED <<lock, hashfile, pyproject, session, _version, frame, locals, log>>
    /\ WriteText(to_constraints(locals.exported))

\* hashfile.write_text(digest); return path
write_hash ==
    /\ pc = "write_hash"
    /\ hashfile' = Some(locals.digest)
    /\ ReturnPath(RequirementsPath)
    /\ locals' = [locals EXCEPT !.requirements = Requirements(RequirementsPath)]
    /\ UNCHANGED <<lock, reqfile, pyproject, session, _version, frame, log>>

\* install: self.session.install(f"--constraint={requirements}", *args, **kwargs)
session_install ==
    /\ pc = "session_install"
    /\ UNCHANGED <<lock, reqfile, hashfile, pyproject, session, _version, frame, locals>>
    /\ \E code \in CommandCodes :
          LET call == SessionInstall(<<ConstraintOption(locals.requirements)>> \o locals.args,
                                     frame.kwargs, code)
          IN /\ log' = Append(log, call)
             /\ IF call.ran /\ call.code # 0
                THEN Throw("CommandFailed")
                ELSE pc' = "done" /\ result' = Return(None)

\* the package argument, with the extras if the joined extras are not empty
RootPackageUnstripped(extras, package, name) ==
    LET suffix == Join(<<",">>, extras)
    IN IF suffix # <<>>
       THEN name \o (<<"[">> \o suffix \o <<"]">>) \o <<" @ ">> \o package
       ELSE package

\* installroot: the package argument, with the extras if the joined extras
\* are not blank
RootPackage(extras, package, name) ==
    LET suffix == Join(<<",">>, extras)
    IN IF Strip(suffix) # <<>>
       THEN name \o (<<"[">> \o suffix \o <<"]">>) \o <<" @ ">> \o package
       ELSE package

\* distribution_format is DistributionFormat.SDIST, the identity of members
IsSdistMember(distribution_format) == distribution_format = SDIST

\* distribution_format == DistributionFormat.SDIST, the comparison of strs
IsSdist(distribution_format) == distribution_format.value = SDIST.value

\* installroot, after build_package and export_requirements: the package
\* is uninstalled and the package argument is made
installroot_uninstall ==
    /\ pc = "installroot_uninstall"
    /\ UNCHANGED <<lock, reqfile, hashfile, pyproject, session, _version, frame>>
    /\ \E code \in CommandCodes :
          LET call == RunAlways(<< <<"pip">>, <<"uninstall">>, <<"--yes">>,
                                   locals.package >>, Silent, code)
          IN /\ log' = Append(log, call)
             /\ locals' = [locals EXCEPT
                   !.package = RootPackage(frame.extras, locals.package,
                                           ConfigName(pyproject))]
             /\ IF call.ran /\ call.code # 0
                THEN Throw("CommandFailed")
                ELSE /\ pc' = IF IsSdist(frame.format) THEN "cache_remove"
                              ELSE "installroot_install"
                     /\ UNCHANGED result

\* installroot with an sdist: pip cache remove <name>, exit codes 0 and 1
\* being a success
cache_remove ==
    /\ pc = "cache_remove"
    /\ UNCHANGED <<lock, reqfile, hashfile, pyproject, session, _version, frame, locals>>
    /\ \E code \in ExitCodes :
          LET call == RunAlways(<< <<"pip">>, <<"cache">>, <<"remove">>,
                                   ConfigName(pyproject) >>,
                                << <<"success_codes", "[0, 1]">>, <<"silent", "True">> >>,
                                code)
          IN /\ log' = Append(log, call)
             /\ IF call.ran /\ call.code \notin {0, 1}
                THEN Throw("CommandFailed")
                ELSE pc' = "installroot_install" /\ UNCHANGED result

\* installroot: self.session.install(f"--constraint={requirements}", package)
installroot_install ==
    /\ pc = "installroot_install"
    /\ UNCHANGED <<lock, reqfile, hashfile, pyproject, session, _version, frame, locals>>
    /\ \E code \in CommandCodes :
          LET call == SessionInstall(<<ConstraintOption(locals.requirements),
                                       locals.package>>, <<>>, code)
          IN /\ log' = Append(log, call)
             /\ IF call.ran /\ call.code # 0
                THEN Throw("CommandFailed")
                ELSE pc' = "done" /\ result' = Return(None)

\* the operation is over and the session function goes on
Finish ==
    /\ pc = "done"
    /\ pc' = "idle"
    /\ frame' = NoFrame
    /\ locals' = NoLocals
    /\ log' = <<>>
    /\ result' = NoResult
    /\ UNCHANGED <<lock, reqfile, hashfile, pyproject, session, _version>>

Next ==
    \/ NewSession
    \/ WriteLock
    \/ RemoveLock
    \/ \E args \in ArgLists, kwargs \in KwargsSet :
          install(args, kwargs)
    \/ \E distribution_format \in FormatArgs,
          extras \in SeqsUpTo(ExtraStrings, MaxExtras) :
          installroot(distribution_format, extras)
    \/ CallExportRequirements
    \/ \E distribution_format \in FormatArgs : CallBuildPackage(distribution_format)
    \/ build_package
    \/ install_uninstall
    \/ export_requirements
    \/ poetry_export
    \/ write_requirements
    \/ write_hash
    \/ session_install
    \/ installroot_uninstall
    \/ cache_remove
    \/ installroot_install
    \/ Finish

Spec == Init /\ [][Next]_vars

-----------------------------------------------------------------------------
(* export_requirements on its own, called again and again on one           *)
(* environment directory while poetry.lock changes between the calls only  *)

\* poetry.lock is rewritten by another process, between operations
WriteLockBetweenCalls ==
    /\ pc = "idle"
    /\ \E l \in LockContents : lock # Some(l) /\ lock' = Some(l)
    /\ UNCHANGED <<reqfile, hashfile, pyproject, session, _version, pc, frame,
                   locals, log, result>>

CacheNext ==
    \/ NewSession
    \/ WriteLockBetweenCalls
    \/ RemoveLock
    \/ CallExportRequirements
    \/ export_requirements
    \/ poetry_export
    \/ write_requirements
    \/ write_hash
    \/ Finish

CacheSpec == Init /\ [][CacheNext]_vars

\* requirements.txt is removed from the tmp directory by another process,
\* between operations; the hash file stays
RemoveRequirements ==
    /\ pc = "idle"
    /\ ~IsNone(reqfile)
    /\ reqfile' = None
    /\ UNCHANGED <<lock, hashfile, pyproject, session, _version, pc, frame,
                   locals, log, result>>

TmpNext ==
    \/ CacheNext
    \/ RemoveRequirements

\* the same calls on a tmp directory that loses its requirements.txt
TmpSpec == Init /\ [][TmpNext]_vars

-----------------------------------------------------------------------------
(* poetry.py on its own: the methods of one Poetry object, called directly *)

\* the sessions a Poetry object is made for: the Nox sessions, and those
\* that print one of the tested versions alone
PoetrySessions ==
    Sessions \cup {[no_install |-> FALSE, version_output |-> t.output] :
                      t \in TestedVersions}

PoetryInit ==
    /\ lock = Some(1)
    /\ reqfile = None
    /\ hashfile = None
    /\ pyproject \in PyProjects
    /\ session \in PoetrySessions
    /\ _version = None
    /\ pc = "idle"
    /\ frame = NoFrame
    /\ locals = NoLocals
    /\ log = <<>>
    /\ result = NoResult

\* The session stops executing commands while the Poetry object lives on:
\* run_always returns None from now on.  (A session double; the no_install
\* of the FakeSession of the unit tests is a plain attribute.)
SetNoInstall ==
    /\ pc = "idle"
    /\ ~session.no_install
    /\ session' = [session EXCEPT !.no_install = TRUE]
    /\ UNCHANGED <<lock, reqfile, hashfile, pyproject, _version, pc, frame,
                   locals, log, result>>

\* poetry.version is read
CallVersion ==
    /\ pc = "idle"
    /\ frame' = [NoFrame EXCEPT !.op = "version"]
    /\ locals' = NoLocals
    /\ pc' = "poetry_version"
    /\ UNCHANGED <<lock, reqfile, hashfile, pyproject, session, _version, log, result>>

\* poetry.has_dependency_groups is read
CallHasDependencyGroups ==
    /\ pc = "idle"
    /\ frame' = [NoFrame EXCEPT !.op = "has_dependency_groups"]
    /\ locals' = NoLocals
    /\ pc' = "poetry_version"
    /\ UNCHANGED <<lock, reqfile, hashfile, pyproject, session, _version, log, result>>

\* poetry.export() is called, on a session where `poetry export` prints
\* the lines given
CallExport(lines) ==
    /\ pc = "idle"
    /\ frame' = [NoFrame EXCEPT !.op = "export", !.args = lines]
    /\ locals' = NoLocals
    /\ pc' = "poetry_export"
    /\ UNCHANGED <<lock, reqfile, hashfile, pyproject, session, _version, log, result>>

\* poetry.config.dependency_groups is read: Config reads pyproject.toml
CallDependencyGroups ==
    /\ pc = "idle"
    /\ frame' = [NoFrame EXCEPT !.op = "dependency_groups"]
    /\ locals' = NoLocals
    /\ pc' = "done"
    /\ result' = Return(dependency_groups(pyproject))
    /\ UNCHANGED <<lock, reqfile, hashfile, pyproject, session, _version, log>>

\* what the property under way returns for a version: the version itself,
\* or whether it has dependency groups
VersionResult(version) ==
    IF frame.op = "version" THEN Return(version)
    ELSE has_dependency_groups(version)

\* the outcome of the property under way, after Poetry.version
ReturnVersion(version) ==
    /\ _version' = version.cache
    /\ log' = log \o version.calls
    /\ IF ~Returned(version.out) THEN Throw(version.out.exc)
       ELSE IF ~Returned(VersionResult(version.out.val))
       THEN Throw(VersionResult(version.out.val).exc)
       ELSE pc' = "done" /\ result' = VersionResult(version.out.val)

\* Poetry.version, and Poetry.has_dependency_groups on top of it
poetry_version ==
    /\ pc = "poetry_version"
    /\ UNCHANGED <<lock, reqfile, hashfile, pyproject, session, frame, locals>>
    /\ \E code \in CommandCodes : ReturnVersion(PoetryVersion(code))

\* Poetry.export returns the output without the warnings to its caller;
\* the warnings have been printed to sys.stderr
ReturnExported ==
    /\ pc = "write_requirements"
    /\ frame.op = "export"
    /\ pc' = "done"
    /\ result' = Return(locals.exported)
    /\ locals' = [locals EXCEPT !.stderr =
                      PrintedWarnings(SplitLines(ExportText(frame.args), TRUE))]
    /\ UNCHANGED <<lock, reqfile, hashfile, pyproject, session, _version, frame, log>>

PoetryNext ==
    \/ SetNoInstall
    \/ CallVersion
    \/ CallHasDependencyGroups
    \/ \E lines \in ExportLineLists : CallExport(lines)
    \/ CallDependencyGroups
    \/ \E distribution_format \in FormatArgs : CallBuildPackage(distribution_format)
    \/ poetry_version
    \/ poetry_export
    \/ ReturnExported
    \/ build_package
    \/ Finish

PoetrySpec == PoetryInit /\ [][PoetryNext]_vars

-----------------------------------------------------------------------------
(* core.py and hookimpl.py: the functions that take the Nox session as an  *)
(* argument, the hook of Nox that uses them, and the patch of              *)
(* Session.install.  hookimpl.py imports build_package, export_requirements *)
(* and WHEEL from the package; the functions of these names are those of   *)
(* core.py.  The requirements cache is the one of _PoetrySession:          *)
(* session.create_tmp() is <envdir>/tmp.                                   *)

\* the argument lists Nox gives to the hook
HookArgLists == SeqsUpTo({DOT, <<"pip">>, <<".", "[", "noodles", "]">>}, MaxArgs)

\* core.build_package: the URL with the SHA-256 digest of the archive, and
\* with the egg fragment when the format is the member SDIST
CorePackageUrl(archive, format, name) ==
    LET url == <<"file://">> \o PathJoin(cwd, PathJoin(<<"dist">>, archive))
               \o <<"#sha256=", "sha256:">> \o archive
    IN IF format = SDIST THEN url \o <<"&egg=">> \o name ELSE url

\* a hook that binds the new list to its local name
HookArgsRebound(args, package) == args

\* the hook: args[:] = [package if arg == "." else arg for arg in args]
HookArgs(args, package) ==
    [i \in 1..Len(args) |-> IF args[i] = DOT THEN package ELSE args[i]]

\* The cache an earlier run left in <envdir>/tmp: none, or the constraints
\* and the digest of some contents of poetry.lock
CoreInit ==
    /\ lock \in {None} \cup {Some(l) : l \in LockContents}
    /\ \/ reqfile = None /\ hashfile = None
       \/ \E l \in LockContents :
             /\ reqfile = Some(<<"first", "==", ToString(l)>>)
             /\ hashfile = Some(blake2b(l))
    /\ pyproject = PyProject
    /\ session \in Sessions
    /\ _version = None
    /\ pc = "idle"
    /\ frame = NoFrame
    /\ locals = NoLocals
    /\ log = <<>>
    /\ result = NoResult

\* Nox calls the hook with the list of arguments and the keyword arguments
\* of a session.install
nox_session_install(args, kwargs) ==
    /\ pc = "idle"
    /\ frame' = [NoFrame EXCEPT !.op = "nox_session_install", !.args = args,
                                 !.kwargs = kwargs]
    /\ locals' = [NoLocals EXCEPT !.args = args]
    /\ pc' = "core_export_requirements"
    /\ UNCHANGED <<lock, reqfile, hashfile, pyproject, session, _version, log, result>>

\* patch(distribution_format=...): Session.install is core.install from
\* now on.  The format is kept nowhere by patch; the frame keeps it as the
\* argument of the call.
patch(distribution_format) ==
    /\ pc = "idle"
    /\ frame' = [NoFrame EXCEPT !.op = "patch", !.format = distribution_format]
    /\ locals' = NoLocals
    /\ pc' = "patched"
    /\ UNCHANGED <<lock, reqfile, hashfile, pyproject, session, _version, log, result>>

\* Session.install(session, *args, **kwargs) after patch, which is
\* core.install, up to its first call: args_extras and the test for "."
Session_install(args, kwargs) ==
    /\ pc = "patched"
    /\ frame' = [frame EXCEPT !.op = "core.install", !.args = args, !.kwargs = kwargs]
    /\ locals' = [NoLocals EXCEPT !.args = args]
    /\ pc' = IF HasDot(args) THEN "core_build_package" ELSE "core_export_requirements"
    /\ UNCHANGED <<lock, reqfile, hashfile, pyproject, session, _version, log, result>>

\* core.export_requirements: poetry.lock is read and hashed; on a stale
\* hash file Poetry(session).export(path) is called, and Poetry.export
\* takes no path: TypeError; on a fresh one the path is returned.  The
\* hook then inserts the constraint option at the head of its list, and
\* looks for "." in the list.
core_export_requirements ==
    /\ pc = "core_export_requirements"
    /\ UNCHANGED <<lock, reqfile, hashfile, pyproject, session, _version, frame, log>>
    /\ IF IsNone(lock)
       THEN Throw("FileNotFoundError") /\ UNCHANGED locals
       ELSE IF NeedsExport(hashfile, blake2b(Value(lock)))
       THEN Throw("TypeError") /\ UNCHANGED locals
       ELSE IF frame.op = "core.install"
       THEN /\ locals' = [locals EXCEPT !.requirements = RequirementsPath]
            /\ pc' = "core_session_install"
            /\ UNCHANGED result
       ELSE /\ locals' = [locals EXCEPT
                  !.requirements = RequirementsPath,
                  !.args = <<ConstraintOption(RequirementsPath)>> \o locals.args]
            /\ IF \E i \in 1..Len(locals.args) : locals.args[i] = DOT
               THEN pc' = "core_build_package" /\ UNCHANGED result
               ELSE pc' = "done" /\ result' = Return(None)

\* core.build_package(session, distribution_format=WHEEL), as the hook and
\* core.install call it, with Poetry.build
core_build_package ==
    /\ pc = "core_build_package"
    /\ UNCHANGED <<lock, reqfile, hashfile, pyproject, session, _version, frame>>
    /\ \E code \in CommandCodes : \E output \in BuildOutputs(WHEEL) :
          LET call == RunAlways(BuildCommand(DistributionFormat(WHEEL).val),
                                PoetryKwargs, code)
          IN /\ log' = Append(log, call)
             /\ IF ~call.ran
                THEN Throw("CommandSkippedError") /\ UNCHANGED locals
                ELSE IF call.code # 0
                THEN Throw("CommandFailed") /\ UNCHANGED locals
                ELSE /\ locals' = [locals EXCEPT
                           !.output = output,
                           !.package = CorePackageUrl(BuiltArchive(output), WHEEL,
                                                      ConfigName(pyproject))]
                     /\ pc' = "core_uninstall"
                     /\ UNCHANGED result

\* session.run("pip", "uninstall", "--yes", package, silent=True) with the
\* arguments rewritten: before it in core.install, after it in the hook,
\* which then returns None
core_uninstall ==
    /\ pc = "core_uninstall"
    /\ UNCHANGED <<lock, reqfile, hashfile, pyproject, session, _version, frame>>
    /\ \E code \in CommandCodes :
          LET call == [fn |-> "run",
                       args |-> << <<"pip">>, <<"uninstall">>, <<"--yes">>,
                                   locals.package >>,
                       kwargs |-> Silent, ran |-> TRUE, code |-> code]
          IN /\ log' = Append(log, call)
             /\ IF frame.op = "core.install"
                THEN /\ locals' = [locals EXCEPT
                           !.args = RewriteArgs(frame.args, locals.package,
                                                ConfigName(pyproject))]
                     /\ IF call.code # 0 THEN Throw("CommandFailed")
                        ELSE pc' = "core_export_requirements" /\ UNCHANGED result
                ELSE IF call.code # 0
                THEN Throw("CommandFailed") /\ UNCHANGED locals
                ELSE /\ locals' = [locals EXCEPT
                           !.args = HookArgs(locals.args, locals.package)]
                     /\ pc' = "done"
                     /\ result' = Return(None)

\* core.install: Session_install(session, f"--constraint={requirements}",
\* *args, **kwargs), the install of Nox itself
core_session_install ==
    /\ pc = "core_session_install"
    /\ UNCHANGED <<lock, reqfile, hashfile, pyproject, session, _version, frame, locals>>
    /\ \E code \in CommandCodes :
          LET call == SessionInstall(<<ConstraintOption(locals.requirements)>> \o locals.args,
                                     frame.kwargs, code)
          IN /\ log' = Append(log, call)
             /\ IF call.ran /\ call.code # 0
                THEN Throw("CommandFailed")
                ELSE pc' = "done" /\ result' = Return(None)

CoreNext ==
    \/ \E args \in HookArgLists, kwargs \in KwargsSet : nox_session_install(args, kwargs)
    \/ \E distribution_format \in {WHEEL, SDIST} : patch(distribution_format)
    \/ \E args \in HookArgLists, kwargs \in KwargsSet : Session_install(args, kwargs)
    \/ core_export_requirements
    \/ core_build_package
    \/ core_uninstall
    \/ core_session_install
    \/ Finish

CoreSpec == CoreInit /\ [][CoreNext]_vars

-----------------------------------------------------------------------------
(* sessions.py on its own: the session decorator with the Session proxy,   *)
(* and to_constraints                                                      *)

\* longest input of to_constraints, in lines
MaxLines == 3

\* Lines of a requirements file, with the constraint each is to give
\* (None: it contributes nothing) and whether it is no valid requirement
RequirementLines ==
    { [text |-> <<>>, constraint |-> None, invalid |-> FALSE],
      [text |-> <<" ">>, constraint |-> None, invalid |-> FALSE],
      [text |-> <<"first", " ", "@", " ", "https://",
                  "github.com/hynek/first/archive/main.zip">>,
       constraint |-> None, invalid |-> FALSE],
      [text |-> <<"https://", "github.com/hynek/first/archive/main.zip">>,
       constraint |-> None, invalid |-> FALSE],
      [text |-> <<" ", "boltons", "==", "20.2.1">>,
       constraint |-> Some(<<"boltons", "==", "20.2.1">>), invalid |-> FALSE],
      [text |-> <<"httpx", "[", "http2", "]", "==", "0.17.0">>,
       constraint |-> Some(<<"httpx", "==", "0.17.0">>), invalid |-> FALSE],
      [text |-> <<"regex", "==", "2020.10.28", ";", " ", "python_version", " ",
                  "==", " ", "'", "3.5", "'">>,
       constraint |-> Some(<<"regex", "==", "2020.10.28", ";", " ",
                             "python_version", " ", "==", " ", "\"", "3.5", "\"">>),
       invalid |-> FALSE],
      [text |-> <<"-", "e", " ", "../lib/foo">>,
       constraint |-> None, invalid |-> FALSE],
      [text |-> <<" ", " ", "-", "-", "extra-index-url", " ", "https://",
                  "example.com/pypi/simple">>,
       constraint |-> None, invalid |-> TRUE],
      [text |-> <<"example", " ", "@", " ", "/tmp/example">>,
       constraint |-> None, invalid |-> TRUE] }

\* most parameters of a session function
MaxParams == 2

\* extra parameters of a session function, as nox.parametrize gives them
Params == SeqsUpTo({"1", "2"}, MaxParams)

\* keyword options given to the decorator: none, or a name for the session
DecoratorKwargs == { <<>>, << <<"name", "tests-renamed">> >> }

\* attributes a session function reads from the session it is given
AttrNames == {"install", "poetry", "_session", "run", "posargs", "virtualenv", "bogus"}

\* session(*args, **kwargs): without a function, the decorator with the
\* options bound; with the function, the wrapper registered with Nox under
\* the options
session_decorator(args, kwargs) ==
    IF args = <<>> THEN [partial |-> TRUE, function |-> "", kwargs |-> kwargs]
    ELSE [partial |-> FALSE, function |-> args[1], kwargs |-> kwargs]

\* Session(session): the proxy with its attributes _session and poetry
SessionProxy(s) == [_session |-> s, poetry |-> [session |-> s]]

\* getattr(s, name) on a nox.Session
SessionGetAttr(s, name) ==
    IF name \in {"install", "run", "posargs", "virtualenv"}
    THEN Return([owner |-> "nox.Session", attr |-> name, of |-> s])
    ELSE Raise("AttributeError")

\* a proxy that does not override install
GetAttrOfSession(proxy, name) ==
    IF name = "_session"
    THEN Return([owner |-> "Session", attr |-> "_session", of |-> proxy._session])
    ELSE IF name = "poetry"
    THEN Return([owner |-> "Session", attr |-> "poetry", of |-> proxy.poetry.session])
    ELSE SessionGetAttr(proxy._session, name)

\* getattr(proxy, name): the attributes of the instance and of the class
\* Session come first, and _SessionProxy.__getattr__ gives the others
GetAttr(proxy, name) ==
    IF name = "install"
    THEN Return([owner |-> "Session", attr |-> "install", of |-> proxy._session])
    ELSE IF name = "_session"
    THEN Return([owner |-> "Session", attr |-> "_session", of |-> proxy._session])
    ELSE IF name = "poetry"
    THEN Return([owner |-> "Session", attr |-> "poetry", of |-> proxy.poetry.session])
    ELSE SessionGetAttr(proxy._session, name)

UnitInit ==
    /\ lock = Some(1)
    /\ reqfile = None
    /\ hashfile = None
    /\ pyproject = PyProject
    /\ session \in Sessions
    /\ _version = None
    /\ pc = "idle"
    /\ frame = NoFrame
    /\ locals = NoLocals
    /\ log = <<>>
    /\ result = NoResult

\* to_constraints is called on the lines joined by newlines
CallToConstraints(lines) ==
    /\ pc = "idle"
    /\ frame' = [NoFrame EXCEPT !.op = "to_constraints", !.args = lines]
    /\ locals' = NoLocals
    /\ pc' = "done"
    /\ result' = to_constraints(Join(<<NL>>, lines))
    /\ UNCHANGED <<lock, reqfile, hashfile, pyproject, session, _version, log>>

\* Nox calls a session function that was decorated, bare or with options:
\* the wrapper makes the proxy and calls the function with it and with the
\* parameters
wrapper(decorated, _args) ==
    /\ pc = "idle"
    /\ ~decorated.partial
    /\ frame' = [NoFrame EXCEPT !.op = "session", !.args = _args,
                                 !.kwargs = decorated.kwargs]
    /\ locals' = NoLocals
    /\ log' = << [fn |-> decorated.function,
                  args |-> <<SessionProxy(session)>> \o _args,
                  kwargs |-> <<>>, ran |-> TRUE, code |-> 0] >>
    /\ pc' = "function"
    /\ UNCHANGED <<lock, reqfile, hashfile, pyproject, session, _version, result>>

\* the session function reads an attribute of the proxy it was given, and
\* returns
function_getattr(name) ==
    /\ pc = "function"
    /\ locals' = [locals EXCEPT !.args = <<name>>,
                                 !.output = <<GetAttr(log[1].args[1], name)>>]
    /\ pc' = "done"
    /\ result' = Return(None)
    /\ UNCHANGED <<lock, reqfile, hashfile, pyproject, session, _version, frame, log>>

UnitNext ==
    \/ \E lines \in SeqsUpTo({l.text : l \in RequirementLines}, MaxLines) :
          CallToConstraints(lines)
    \/ \E kwargs \in DecoratorKwargs, _args \in Params :
          \/ wrapper(session_decorator(<<"tests">>, <<>>), _args)
          \/ wrapper(session_decorator(
                         <<"tests">>, session_decorator(<<>>, kwargs).kwargs), _args)
    \/ \E name \in AttrNames : function_getattr(name)
    \/ Finish

UnitSpec == UnitInit /\ [][UnitNext]_vars

-----------------------------------------------------------------------------
(* What an operation under way has done, as the log and its locals tell *)

\* call is session.run_always(tool, sub, ...)
IsCommand(call, tool, sub) ==
    /\ call.fn = "run_always"
    /\ Len(call.args) >= 2
    /\ call.args[1] = <<tool>>
    /\ call.args[2] = <<sub>>

\* the calls of the log that are the command tool sub, as indices
Commands(tool, sub) == {i \in 1..Len(log) : IsCommand(log[i], tool, sub)}

\* the calls of session.install of the log, as indices
Installs == {i \in 1..Len(log) : log[i].fn = "install"}

\* export_requirements has read poetry.lock and the hash file
ExportEntered == locals.digest # <<>>

\* the hash file it read is absent or holds another digest than the lock
\* file it read
HashStale ==
    ExportEntered /\ (IsNone(locals.hash) \/ Value(locals.hash) # locals.digest)

\* the hash file it read holds the digest of the lock file it read
HashFresh ==
    ExportEntered /\ ~IsNone(locals.hash) /\ Value(locals.hash) = locals.digest

\* export_requirements has returned a path to its caller
ExportReturned ==
    IF frame.op = "export_requirements" THEN Returned(result)
    ELSE locals.requirements # <<>>

\* the path it returned
ReturnedPath ==
    IF frame.op = "export_requirements" THEN result.val ELSE locals.requirements

-----------------------------------------------------------------------------
(* Claims *)

\* C1, as stated: a call of export_requirements invokes `poetry export` if
\* and only if the hash file is absent or differs from the digest of the
\* lock file it read, and after a call that exported the hash file holds
\* that digest.
C1_ExportIffStale ==
    (pc = "done" /\ ExportEntered) =>
        /\ (Commands("poetry", "export") # {}) <=> HashStale
        /\ (Commands("poetry", "export") # {}) => hashfile = Some(locals.digest)

\* C1, amended: export_requirements invokes `poetry export` only if the
\* hash file it read is absent or differs from the digest of the lock file
\* it read; a call that returns a path has invoked `poetry export` exactly
\* in that case; and after a call that exported and returned, the hash file
\* holds exactly that digest.
C1_ExportOnlyIfStale ==
    /\ (Commands("poetry", "export") # {}) => HashStale
    /\ ExportReturned =>
          /\ HashStale => Commands("poetry", "export") # {}
          /\ HashStale => hashfile = Some(locals.digest)

\* C1: a call finds a hash file with the digest of an older lock file,
\* exports, and returns with the new digest in the hash file
C1_Witness ==
    /\ ExportReturned
    /\ ~IsNone(locals.hash)
    /\ Value(locals.hash) # locals.digest
    /\ Commands("poetry", "export") # {}
    /\ hashfile = Some(locals.digest)

\* C2: when the hash file holds the digest of the current poetry.lock,
\* export_requirements runs neither `poetry --version` nor `poetry export`,
\* leaves requirements.txt and the hash file as they are, and returns the
\* path <envdir>/tmp/requirements.txt, the same at every call.
C2_CacheHit ==
    [][HashFresh' =>
          /\ reqfile' = reqfile
          /\ hashfile' = hashfile
          /\ Commands("poetry", "--version")' = {}
          /\ Commands("poetry", "export")' = {}
          /\ ExportReturned'
          /\ ReturnedPath' = RequirementsPath]_vars

\* C2: a call of export_requirements has returned on a fresh hash file,
\* with the requirements file of an earlier call in place
C2_Witness ==
    /\ pc = "done"
    /\ frame.op = "export_requirements"
    /\ HashFresh
    /\ result = Return(RequirementsPath)
    /\ ~IsNone(reqfile)
    /\ log = <<>>

\* arg is "." or "." followed by bracketed extras
IsSentinel(arg) ==
    /\ arg # <<>>
    /\ arg[1] = "."
    /\ Len(arg) = 1 \/ (Len(arg) >= 4 /\ arg[2] = "[" /\ Last(arg) = "]")

\* s ends with suffix
EndsWith(s, suffix) ==
    /\ Len(s) >= Len(suffix)
    /\ SubSeq(s, Len(s) - Len(suffix) + 1, Len(s)) = suffix

\* C3, as stated: the arguments install gives to the underlying
\* session.install after the constraint option are as many as the caller's,
\* and the one at position i is the caller's argument i, unless that is "."
\* with or without extras, which is replaced by a reference to the built
\* package.
C3_ForwardedUnchanged ==
    \A k \in Installs :
        frame.op = "install" =>
            /\ Len(log[k].args) = 1 + Len(frame.args)
            /\ \A i \in 1..Len(frame.args) :
                  IF IsSentinel(frame.args[i])
                  THEN EndsWith(log[k].args[i + 1], locals.package)
                  ELSE log[k].args[i + 1] = frame.args[i]

\* C4: a call of install that reaches the underlying session.install calls
\* it once, with "--constraint=<path>" as the first argument and nowhere
\* else, <path> being the path export_requirements returned in this call,
\* with one more argument for each argument of the caller, and with the
\* caller's keyword arguments.
C4_ConstraintFirst ==
    frame.op = "install" =>
        /\ Cardinality(Installs) <= 1
        /\ \A k \in Installs :
              /\ ExportReturned
              /\ ReturnedPath = RequirementsPath
              /\ log[k].args[1] = <<"--constraint=">> \o ReturnedPath
              /\ Len(log[k].args) = 1 + Len(frame.args)
              /\ \A i \in 2..Len(log[k].args) : log[k].args[i][1] # "--constraint="
              /\ log[k].kwargs = frame.kwargs

\* C4: install has called session.install for two arguments and a keyword
\* argument of the caller
C4_Witness ==
    /\ frame.op = "install"
    /\ Installs # {}
    /\ Len(frame.args) = 2
    /\ frame.kwargs # <<>>

\* C5: in the arguments install gives to session.install, "." has become
\* the URL build_package returned, and ".[extras]" has become the
\* configured package name, the bracketed extras as they were given,
\* " @ " and that URL.
C5_RewriteDot ==
    frame.op = "install" =>
        \A k \in Installs : \A i \in 1..Len(frame.args) :
            /\ frame.args[i] = DOT => log[k].args[i + 1] = locals.package
            /\ (IsSentinel(frame.args[i]) /\ frame.args[i] # DOT) =>
                  log[k].args[i + 1] =
                      pyproject.name \o Tail(frame.args[i]) \o <<" @ ">> \o locals.package

\* C5: install has called session.install for "." and for ".[noodles]"
C5_Witness ==
    /\ frame.op = "install"
    /\ Installs # {}
    /\ \E i, j \in 1..Len(frame.args) :
          /\ frame.args[i] = DOT
          /\ frame.args[j] = <<".", "[", "noodles", "]">>
    /\ StartsWith(locals.package, <<"file://">>)

\* no argument of the caller of install is "." with or without extras
NoSentinel == \A i \in 1..Len(frame.args) : ~IsSentinel(frame.args[i])

\* C6, as stated: in a session that does not execute commands, install and
\* installroot return normally, for every argument list and every state of
\* the requirements cache, with no call of pip uninstall and no call of
\* the underlying session.install.
C6_SkippedAlways ==
    (session.no_install /\ frame.op \in {"install", "installroot"}) =>
        /\ Commands("pip", "uninstall") = {}
        /\ Installs = {}
        /\ pc = "done" => result = Return(None)

\* C6, amended: in a session that does not execute commands, install and
\* installroot execute nothing and never call pip uninstall.  installroot
\* returns normally without calling session.install, unless the format is
\* invalid (ValueError).  install returns normally; it calls session.install
\* exactly when no argument is "." with or without extras and the hash
\* file holds the digest of poetry.lock, and it raises FileNotFoundError
\* when no argument is "." and there is no poetry.lock.
C6_SkippedUnlessCached ==
    (session.no_install /\ frame.op \in {"install", "installroot"}) =>
        /\ \A i \in 1..Len(log) : ~log[i].ran
        /\ Commands("pip", "uninstall") = {}
        /\ Installs # {} => (frame.op = "install" /\ NoSentinel /\ HashFresh)
        /\ pc = "done" =>
              /\ result =
                    IF frame.op = "installroot" /\ frame.format.value \notin {"wheel", "sdist"}
                    THEN Raise("ValueError")
                    ELSE IF frame.op = "install" /\ NoSentinel /\ IsNone(lock)
                    THEN Raise("FileNotFoundError")
                    ELSE Return(None)
              /\ (frame.op = "install" /\ NoSentinel /\ HashFresh) => Installs # {}

\* C6: in a session that does not execute commands, install has returned
\* after calling session.install, on the requirements cache an earlier
\* session left
C6_Witness ==
    /\ session.no_install
    /\ pc = "done"
    /\ result = Return(None)
    /\ frame.op = "install"
    /\ Installs # {}
    /\ HashFresh

\* C7: installroot with a format that is neither wheel nor sdist calls
\* nothing on the session, no poetry build, no poetry export, no pip
\* uninstall and no session.install, leaves requirements.txt and the hash
\* file as they are, and raises ValueError.
C7_InvalidFormat ==
    /\ []((frame.op = "installroot" /\ frame.format.value \notin {"wheel", "sdist"}) =>
             /\ log = <<>>
             /\ pc \in {"build_package", "done"}
             /\ pc = "done" => result = Raise("ValueError"))
    /\ [][(frame'.op = "installroot" /\ frame'.format.value \notin {"wheel", "sdist"}) =>
             (reqfile' = reqfile /\ hashfile' = hashfile)]_vars

\* C7: installroot has raised ValueError for the format "egg", with the
\* requirements cache of an earlier call in place
C7_Witness ==
    /\ pc = "done"
    /\ frame.op = "installroot"
    /\ frame.format = Str("egg")
    /\ result = Raise("ValueError")
    /\ ~IsNone(reqfile)
    /\ ~IsNone(hashfile)

\* s is empty or white space only
Blank(s) == \A i \in 1..Len(s) : s[i] \in Whitespace

\* the URL build_package returned to installroot: what pip uninstall got
BuiltUrls == {log[u].args[4] : u \in Commands("pip", "uninstall")}

\* C8: installroot calls session.install at most once, with two arguments:
\* "--constraint=<requirements path>" and the package, which is the URL of
\* the built package when the extras joined by commas are empty or blank,
\* and else the configured name, "[", the extras joined by commas in the
\* given order, "]", " @ " and the URL; for wheel and sdist alike.
C8_RootPackage ==
    frame.op = "installroot" =>
        /\ Cardinality(Installs) <= 1
        /\ \A k \in Installs :
              /\ Len(log[k].args) = 2
              /\ log[k].args[1] = <<"--constraint=">> \o RequirementsPath
              /\ \E url \in BuiltUrls :
                    log[k].args[2] =
                        IF Blank(Join(<<",">>, frame.extras)) THEN url
                        ELSE pyproject.name \o <<"[">> \o Join(<<",">>, frame.extras)
                             \o <<"]">> \o <<" @ ">> \o url

\* C8: installroot has called session.install for an sdist given as a
\* string, once with blank extras and the URL alone
C8_Witness ==
    /\ frame.op = "installroot"
    /\ frame.format = Str("sdist")
    /\ frame.extras = << <<" ">> >>
    /\ \E k \in Installs : log[k].args[2] \in BuiltUrls

\* C9: in installroot with the sdist format, given as member or as string,
\* every call of session.install comes after a `pip cache remove <name>`
\* that was skipped or ended with exit code 0 or 1, which comes after the
\* pip uninstall; with the wheel format there is no `pip cache remove`.
C9_CacheRemove ==
    frame.op = "installroot" =>
        IF frame.format.value = "sdist"
        THEN \A k \in Installs :
                \E u \in Commands("pip", "uninstall"), c \in Commands("pip", "cache") :
                    /\ u < c
                    /\ c < k
                    /\ log[c].args = << <<"pip">>, <<"cache">>, <<"remove">>, pyproject.name >>
                    /\ log[c].ran => log[c].code \in {0, 1}
        ELSE Commands("pip", "cache") = {}

\* C9: installroot with the string "sdist" has called session.install after
\* a `pip cache remove` that ended with exit code 1
C9_Witness ==
    /\ frame.op = "installroot"
    /\ frame.format = Str("sdist")
    /\ Installs # {}
    /\ \E c \in Commands("pip", "cache") : log[c].ran /\ log[c].code = 1

\* tok is the last of the words of s that white space separates
IsLastToken(tok, s) ==
    \E i, j \in 1..Len(s) :
        /\ i <= j
        /\ tok = SubSeq(s, i, j)
        /\ \A k \in i..j : s[k] \notin Whitespace
        /\ i = 1 \/ s[i - 1] \in Whitespace
        /\ \A k \in (j + 1)..Len(s) : s[k] \in Whitespace

\* C10: build_package returns "file://" and the absolute path of
\* dist/<archive>, <archive> being the last word of the output of `poetry
\* build`, followed by "#egg=<name>" exactly when the format is sdist,
\* given as member or as string.
C10_PackageUrl ==
    (frame.op = "build_package" /\ pc = "done" /\ Returned(result)) =>
        \E i \in 1..Len(locals.output) :
            /\ IsLastToken(SubSeq(locals.output, i, Len(RStrip(locals.output))), locals.output)
            /\ result.val =
                  <<"file://">> \o cwd \o <<"/", "dist", "/">>
                  \o SubSeq(locals.output, i, Len(RStrip(locals.output)))
                  \o (IF frame.format.value = "sdist"
                      THEN <<"#egg=">> \o pyproject.name
                      ELSE <<>>)

\* C10: build_package has returned a URL with the egg fragment for the
\* string "sdist" and an output of three lines
C10_Witness ==
    /\ frame.op = "build_package"
    /\ pc = "done"
    /\ frame.format = Str("sdist")
    /\ Len(SplitLines(locals.output, FALSE)) = 3
    /\ EndsWith(result.val, <<"#egg=">> \o pyproject.name)

\* the calls of the log that are commands of poetry, as indices
PoetryCommands ==
    {i \in 1..Len(log) : log[i].fn = "run_always" /\ log[i].args[1] = <<"poetry">>}

\* C11: whenever the session returns None for a command of poetry (the
\* command was not executed), be it `poetry --version`, `poetry export` or
\* `poetry build`, the method of Poetry that called it makes no further
\* call and ends with CommandSkippedError, never with a value.
C11_SkippedRaises ==
    \A i \in PoetryCommands :
        ~log[i].ran =>
            /\ i = Len(log)
            /\ pc = "done"
            /\ result = Raise("CommandSkippedError")

\* C11: Poetry.export, with the version known from an earlier call, has
\* raised CommandSkippedError for a `poetry export` that was not executed
C11_Witness ==
    /\ frame.op = "export"
    /\ pc = "done"
    /\ ~IsNone(_version)
    /\ Len(log) = 1
    /\ IsCommand(log[1], "poetry", "export")
    /\ ~log[1].ran
    /\ result = Raise("CommandSkippedError")

\* the session function was called once, with a proxy of the session and
\* the parameters as they were given
CalledOnce ==
    /\ Len(log) = 1
    /\ log[1].fn = "tests"
    /\ log[1].args[1]._session = session
    /\ Tail(log[1].args) = frame.args

\* C12, as stated: a decorated session function, bare or with options,
\* called with a session and parameters, is called exactly once, with a
\* proxy of that session followed by the parameters as given; install of
\* the proxy is the lock-file aware install, and every other attribute
\* is read from the session.
C12_AllOthersFromSession ==
    frame.op = "session" =>
        /\ CalledOnce
        /\ pc = "done" =>
              IF locals.args[1] = "install"
              THEN locals.output[1] = Return([owner |-> "Session", attr |-> "install", of |-> session])
              ELSE locals.output[1] = SessionGetAttr(session, locals.args[1])

\* C12, amended: as above, but the attributes poetry and _session are the
\* proxy's own as well: poetry is the Poetry utilities made for the
\* session, _session is the session; every attribute other than install,
\* poetry and _session is read from the session.
C12_OthersFromSession ==
    frame.op = "session" =>
        /\ CalledOnce
        /\ pc = "done" =>
              IF locals.args[1] \in {"install", "poetry", "_session"}
              THEN locals.output[1] = Return([owner |-> "Session", attr |-> locals.args[1], of |-> session])
              ELSE locals.output[1] = SessionGetAttr(session, locals.args[1])

\* C12: a function decorated with options was called with two parameters
\* and read `run`, which came from the session
C12_Witness ==
    /\ frame.op = "session"
    /\ pc = "done"
    /\ frame.kwargs # <<>>
    /\ Len(frame.args) = 2
    /\ locals.args[1] = "run"
    /\ Returned(locals.output[1])
    /\ locals.output[1].val.owner = "nox.Session"

\* the calls of the log that build or uninstall the package, as indices
BuildsAndUninstalls ==
    Commands("poetry", "build")
    \cup {i \in 1..Len(log) : log[i].fn = "run" /\ log[i].args[2] = <<"uninstall">>}

C14_NoLockfile ==
    (frame.op = "nox_session_install" /\ pc = "done" /\ IsNone(lock)) =>
        result = Return(None)

\* C15: after patch(distribution_format=F), Session.install builds the
\* archive that replaces "." in the format F, wheel or sdist.
C15_PatchedFormat ==
    frame.op = "core.install" =>
        \A i \in Commands("poetry", "build") :
            log[i].args[3] = <<"--format=", frame.format.value>>

\* the entry of a line in the table of requirement lines
Entry(line) == CHOOSE e \in RequirementLines : e.text = line

\* the constraints the table gives for the lines that have one, in order
Constraints(lines) ==
    LET kept == SelectSeq(lines, LAMBDA l : Entry(l).constraint # None)
    IN [i \in 1..Len(kept) |-> Value(Entry(kept[i]).constraint)]

\* the first non-whitespace character of the line is "-"
IsOptionLine(line) == LStrip(line) # <<>> /\ Head(LStrip(line)) = "-"

\* the lines that are no valid requirement, as indices
InvalidLines == {i \in 1..Len(frame.args) : Entry(frame.args[i]).invalid}

\* C16: to_constraints ignores option lines: when every line that is no
\* valid requirement is an option line, one whose first non-whitespace
\* character is "-", to_constraints raises nothing and returns the
\* constraints of the other lines.
C16_OptionLinesIgnored ==
    (frame.op = "to_constraints"
     /\ \A i \in InvalidLines : IsOptionLine(frame.args[i])) =>
        /\ Returned(result)
        /\ result.val = Join(<<NL>>, Constraints(frame.args))

\* C17: what to_constraints returns is, joined by newlines and in the order
\* of the input, the constraint <name><specifier>, followed by "; " and
\* the marker if there is one, of each line that is a named requirement
\* with a version specifier, without its extras; the other lines (blank,
\* beginning with "-" or a URL scheme, without specifier) give nothing,
\* and the output has no more lines than the input.
C17_Constraints ==
    (frame.op = "to_constraints" /\ Returned(result)) =>
        /\ result.val = Join(<<NL>>, Constraints(frame.args))
        /\ Len(SplitLines(result.val, FALSE))
              <= Len(SplitLines(Join(<<NL>>, frame.args), FALSE))

\* C17: to_constraints has returned two constraints, one with a marker,
\* for a requirement with extras, an editable line and a requirement with
\* a marker
C17_Witness ==
    /\ frame.op = "to_constraints"
    /\ frame.args = << <<"httpx", "[", "http2", "]", "==", "0.17.0">>,
                       <<"-", "e", " ", "../lib/foo">>,
                       <<"regex", "==", "2020.10.28", ";", " ", "python_version",
                         " ", "==", " ", "'", "3.5", "'">> >>
    /\ result = Return(<<"httpx", "==", "0.17.0", NL,
                         "regex", "==", "2020.10.28", ";", " ",
                         "python_version", " ", "==", " ", "\"", "3.5", "\"">>)

\* C18: to_constraints raises RuntimeError exactly when some line that is
\* not blank and not skipped is no valid requirement; the error carries
\* the number of the first such line, counted from 1 with the blank lines,
\* and nothing is returned.
C18_InvalidLine ==
    frame.op = "to_constraints" =>
        IF InvalidLines = {} THEN Returned(result)
        ELSE /\ Raised(result, "RuntimeError")
             /\ result.val \in {<<i>> : i \in InvalidLines}
             /\ \A i \in InvalidLines : result.val[1] <= i

\* C18: to_constraints has raised for line 3, after an empty line and a
\* line of white space
C18_Witness ==
    /\ frame.op = "to_constraints"
    /\ Len(frame.args) = 3
    /\ frame.args[1] = <<>>
    /\ frame.args[2] = <<" ">>
    /\ result = [kind |-> "raise", val |-> <<3>>, exc |-> "RuntimeError"]

\* the tested versions the session prints
PrintedVersions == {t \in TestedVersions : t.output = session.version_output}

\* the first two components of a tested version are at least (1, 2)
AtLeast12(t) == t.major > 1 \/ (t.major = 1 /\ t.minor >= 2)

C20_HasDependencyGroups ==
    (frame.op = "has_dependency_groups" /\ pc = "done") =>
        \A t \in PrintedVersions :
            IF log = <<>> \/ (log[1].ran /\ log[1].code = 0)
            THEN result = Return(AtLeast12(t))
            ELSE ~Returned(result)

\* C20: has_dependency_groups has returned TRUE for Poetry 1.10.0
C20_Witness ==
    /\ frame.op = "has_dependency_groups"
    /\ pc = "done"
    /\ session.version_output = <<"1", ".", "1", "0", ".", "0">>
    /\ result = Return(TRUE)

\* the calls a step adds to the log that are `poetry --version`, as indices
\* of the log after the step
NewVersionCommands ==
    {i \in 1..Len(log') : i > Len(log) /\ IsCommand(log'[i], "poetry", "--version")}

\* C21: once a Poetry object holds a version (`poetry --version` was run
\* and its output parsed), the version it holds never changes, no step of
\* version, has_dependency_groups or export runs `poetry --version` again,
\* and version returns the version held.
C21_VersionCached ==
    [][ ~IsNone(_version) =>
            /\ _version' = _version
            /\ NewVersionCommands = {}
            /\ (pc = "poetry_version" /\ frame.op = "version" =>
                    /\ log' = log
                    /\ result' = Return(Value(_version))) ]_vars

\* C21: has_dependency_groups has returned from the version held, with no
\* command, on a session that executes no command any more
C21_Witness ==
    /\ frame.op = "has_dependency_groups"
    /\ pc = "done"
    /\ session.no_install
    /\ ~IsNone(_version)
    /\ log = <<>>
    /\ Returned(result)

\* an output of `poetry --version` with no version number in it
Bogus == <<"b", "o", "g", "u", "s">>

\* C22: when a Poetry object holds no version and the session prints an
\* output with no version number, an access of the version (directly, or
\* through has_dependency_groups or export) runs `poetry --version`; if the
\* command succeeds the access ends with RuntimeError; and the object
\* still holds no version afterwards, so that the next access does the same.
C22_InvalidVersion ==
    [][ (/\ pc \in {"poetry_version", "poetry_export"}
         /\ IsNone(_version)
         /\ ~session.no_install
         /\ session.version_output = Bogus) =>
            /\ NewVersionCommands # {}
            /\ IsNone(_version')
            /\ pc' = "done"
            /\ (\A i \in NewVersionCommands : log'[i].code = 0) =>
                   result' = Raise("RuntimeError") ]_vars

\* C22: version has raised RuntimeError for the output "bogus" of a command
\* that succeeded, and no version is held
C22_Witness ==
    /\ frame.op = "version"
    /\ pc = "done"
    /\ session.version_output = Bogus
    /\ Len(log) = 1
    /\ IsCommand(log[1], "poetry", "--version")
    /\ log[1].ran
    /\ log[1].code = 0
    /\ result = Raise("RuntimeError")
    /\ IsNone(_version)

\* the lines of the output given to Poetry.export that are warnings, and
\* those that are not, in the order of the output
WarningLines == SelectSeq(frame.args, LAMBDA line : line.warning)
OtherLines == SelectSeq(frame.args, LAMBDA line : ~line.warning)

\* C23: when Poetry.export returns, its value is the output of the command
\* without the lines that start with "Warning:": every other line, in the
\* order of the output and with its line ending; and each line removed has
\* been printed to standard error.
C23_WarningsRemoved ==
    (frame.op = "export" /\ pc = "done" /\ Returned(result)) =>
        /\ result.val = ExportText(OtherLines)
        /\ locals.stderr =
               Concat([i \in 1..Len(WarningLines) |-> WarningLines[i].text \o <<NL>>])

\* C23: Poetry.export has returned the requirement that came before a
\* warning with no line ending, and has printed the warning
C23_Witness ==
    /\ frame.op = "export"
    /\ pc = "done"
    /\ Len(frame.args) = 2
    /\ frame.args[1].text = <<"first", "==", "1", CR, NL>>
    /\ frame.args[2].text = <<"Warning:", " ", "x">>
    /\ result = Return(<<"first", "==", "1", CR, NL>>)
    /\ locals.stderr = <<"Warning:", " ", "x", NL>>

\* C24: Config.dependency_groups returns the names of the group tables of
\* pyproject.toml in the order of the file; when there is no group table
\* it returns ["dev"] if there is a dev-dependencies table, and the empty
\* list if there is none.
C24_DependencyGroups ==
    (frame.op = "dependency_groups" /\ pc = "done") =>
        result = Return(IF pyproject.group # <<>> THEN pyproject.group
                        ELSE IF pyproject.dev_dependencies THEN << <<"dev">> >>
                        ELSE <<>>)

\* C24: dependency_groups has returned ["dev"] for a project with a
\* dev-dependencies table and no group table
C24_Witness ==
    /\ frame.op = "dependency_groups"
    /\ pc = "done"
    /\ pyproject.group = <<>>
    /\ pyproject.dev_dependencies
    /\ result = Return(<< <<"dev">> >>)

\* C30, as stated: whenever pyproject.toml has a dev-dependencies table,
\* "dev" is among the groups Config.dependency_groups returns, also when
\* there are group tables.
C30_DevReported ==
    (frame.op = "dependency_groups" /\ pc = "done" /\ pyproject.dev_dependencies) =>
        \E i \in 1..Len(result.val) : result.val[i] = <<"dev">>

\* C25: in a call of install, `poetry build` and `pip uninstall` are each
\* run at most once; neither is run when no argument is "." (with or
\* without extras); when some argument is, pip uninstall is run, on the
\* package that was built, after the build and before export_requirements
\* is entered, so that it has been run exactly once by then; and the
\* underlying session.install is called after export_requirements has
\* returned, as the last call.
C25_InstallOrder ==
    frame.op = "install" =>
        /\ Cardinality(Commands("poetry", "build")) <= 1
        /\ Cardinality(Commands("pip", "uninstall")) <= 1
        /\ NoSentinel =>
               Commands("poetry", "build") \cup Commands("pip", "uninstall") = {}
        /\ \A u \in Commands("pip", "uninstall") :
              /\ log[u].ran
              /\ log[u].args = << <<"pip">>, <<"uninstall">>, <<"--yes">>, locals.package >>
              /\ \E b \in Commands("poetry", "build") : b < u
        /\ (~NoSentinel /\ ExportEntered) =>
               /\ Cardinality(Commands("pip", "uninstall")) = 1
               /\ \A e \in Commands("poetry", "export") \cup Commands("poetry", "--version") :
                     \A u \in Commands("pip", "uninstall") : u < e
        /\ \A k \in Installs : ExportReturned /\ k = Len(log)

\* C25: install of ".[noodles]" has built the package, uninstalled it,
\* exported the requirements and called session.install, in this order
C25_Witness ==
    /\ frame.op = "install"
    /\ frame.args = << <<".", "[", "noodles", "]">> >>
    /\ Len(log) = 5
    /\ IsCommand(log[1], "poetry", "build")
    /\ IsCommand(log[2], "pip", "uninstall")
    /\ IsCommand(log[3], "poetry", "--version")
    /\ IsCommand(log[4], "poetry", "export")
    /\ log[5].fn = "install"

\* the constraints exported from lock contents l
ConstraintsOf(l) == <<"first", "==", ToString(l)>>

\* C26, as stated: at every state, the point between the two writes
\* included, a hash file that holds the digest of lock contents L stands
\* beside a requirements.txt that holds the constraints exported from L.
C26_HashMeansRequirements ==
    \A l \in LockContents :
        hashfile = Some(blake2b(l)) => reqfile = Some(ConstraintsOf(l))

\* C26, amended: the same at every state but the point between the two
\* writes; there requirements.txt holds the constraints exported from the
\* lock file as it is, and the hash file, if there is one, holds the digest
\* of other contents.
C26_HashMeansRequirementsOnceWritten ==
    IF pc = "write_hash"
    THEN /\ reqfile = Some(ConstraintsOf(Value(lock)))
         /\ hashfile # Some(blake2b(Value(lock)))
    ELSE \A l \in LockContents :
             hashfile = Some(blake2b(l)) => reqfile = Some(ConstraintsOf(l))

\* C26: a call has written the requirements of new lock contents and not
\* yet the hash file, which holds the digest of the contents before
C26_Witness ==
    /\ pc = "write_hash"
    /\ ~IsNone(hashfile)
    /\ hashfile = locals.hash
    /\ reqfile = Some(ConstraintsOf(Value(lock)))

\* C27: a step of export_requirements that ends the call with an
\* exception of Poetry.export or of to_constraints (CommandSkippedError
\* for a command of poetry that was not executed, RuntimeError for a line
\* that is no requirement, or another) leaves requirements.txt and the
\* hash file as they were, and the call has written neither before; so the
\* hash file is the one the call read, it does not hold the digest of the
\* lock file, and a next call on this lock file exports again.
C27_FailureWritesNothing ==
    [][ (/\ frame.op = "export_requirements"
         /\ pc \in {"poetry_export", "write_requirements"}
         /\ pc' = "done"
         /\ ~Returned(result')) =>
            /\ reqfile' = reqfile
            /\ hashfile' = hashfile
            /\ hashfile = locals.hash
            /\ NeedsExport(hashfile', blake2b(Value(lock'))) ]_vars

\* C27: to_constraints has raised on what `poetry export` printed, in a
\* call that found the files of an earlier export, and both are as they
\* were
C27_Witness ==
    /\ frame.op = "export_requirements"
    /\ pc = "done"
    /\ result.exc = "RuntimeError"
    /\ Commands("poetry", "export") # {}
    /\ ~IsNone(locals.hash)
    /\ hashfile = locals.hash
    /\ \E l \in LockContents :
          hashfile = Some(blake2b(l)) /\ reqfile = Some(ConstraintsOf(l))

\* C28, as stated: whenever export_requirements returns a path, there is a
\* requirements file at that path, also after requirements.txt was removed
\* from the tmp directory while the hash file stayed.
C28_RequirementsExist ==
    (frame.op = "export_requirements" /\ pc = "done" /\ Returned(result)) =>
        /\ result.val = RequirementsPath
        /\ ~IsNone(reqfile)

\* C29, as stated: after a call of export_requirements that ran `poetry
\* export` and returned, the digest in the hash file is the digest of the
\* lock contents requirements.txt was exported from, also when poetry.lock
\* was rewritten between the read of the call and the run of the command.
C29_DigestOfExported ==
    (/\ frame.op = "export_requirements"
     /\ pc = "done"
     /\ Returned(result)
     /\ Commands("poetry", "export") # {}) =>
        \E l \in LockContents :
            /\ hashfile = Some(blake2b(l))
            /\ reqfile = Some(ConstraintsOf(l))

====
